---------------------------- MODULE Spec2Model ----------------------------
(***************************************************************************)
(* A model of the Yoga-backed layout pass of the interface library:        *)
(* LayoutEngine::FormatElement with its tree builder, style adapter,       *)
(* measure and baseline callbacks, layout applier, text line generation    *)
(* and tree cleanup                                                        *)
(* (Source/Core/FontEngineDefault/FontFace.h), and LayoutDetails::BuildBox; *)
(* and of the default font engine's FontFace handle cache and FontFamily   *)
(* face selection.                                                         *)
(*                                                                         *)
(* Numbers.  The program computes in float.  The model computes in         *)
(* integers: solver geometry is in whole pixels, font metrics and line     *)
(* positions are in half pixels (Px(n) is n pixels) so that the halving of *)
(* the leading and the floor of the baseline offset are exact.  The float  *)
(* 1.0e20f is the integer `large` on that scale; every other length drawn  *)
(* below is far smaller, FLT_MAX (the computed value of 'none') is larger. *)
(***************************************************************************)
EXTENDS Integers, Sequences, FiniteSets, TLC

\* ------------------------------------------------------------------ bounds
\* Elements of the tree being laid out: 1 is the root, 2..MaxElems descend from it.
MaxElems == 3
\* Scripted answers of the line-break service before it repeats one answer for ever.
MaxScript == 2

\* ------------------------------------------------------- program constants
\* const int max_iterations = 4096, in YogaMeasureFunc and in GenerateTextLines.
max_iterations == 4096
\* const float large = 1.0e20f, in ClampMaxValue.
large == 1000000
\* The literal 1.0e20f in SetYogaMaxDimension.
MaxDimensionNone == 1000000

\* ------------------------------------------------------------ small helpers
Max(a, b) == IF a >= b THEN a ELSE b
Min(a, b) == IF a <= b THEN a ELSE b
Abs(a) == IF a >= 0 THEN a ELSE -a
\* n pixels on the half-pixel scale of font metrics.
Px(n) == 2 * n
\* std::floor of a half-pixel value, to a whole pixel.
Floor(v) == 2 * (v \div 2)

Null == 0
Elem == 1..MaxElems

VARIABLES
    \* --- the element tree (owned by the tree collaborator, read by the pass)
    children,         \* element -> its child slots, in order; a slot may be Null
    kind,             \* element -> "plain" | "text" | "replaced"
    computed,         \* element -> its computed style snapshot
    \* --- what a pass writes on the elements
    box,              \* element -> Box
    offset,           \* element -> [position, offset_parent]
    scrollable_overflow, \* element -> size of the scrollable overflow rectangle
    scroll_offset,    \* element -> current scroll offset
    lines,            \* text element -> its line list
    \* --- the pass in progress
    pc,               \* "idle" | "applied" (where FormatElement stands)
    root,             \* the element FormatElement was called with
    nodes,            \* the Yoga nodes alive, by node id (1 is the wrapper)
    config,           \* TRUE while the YGConfig of the pass is alive
    released,         \* how often each node and the config of the pass were freed
    \* --- what happened in the most recent pass
    calls,            \* the calls ApplyLayoutRecursive(element, node) made
    written,          \* the elements whose offset and Box were set
    write_log,        \* the writes of the pass on the elements, in the order made
    regenerated,      \* the text elements GenerateTextLines was called on
    context_of,       \* node id -> the element the builder bound to it
    generated,        \* text element -> the lines GenerateLine returned to GenerateTextLines
    previous_lines,   \* text element -> its line list when the most recent pass started
    text_env,         \* font metrics, line height and line-break service of the pass
    clamps,           \* ClampScrollOffsetRecursive calls, and clamping overflow writes
    \* --- the line loops, one GenerateLine request per step (SpecLines)
    gen,              \* GenerateTextLines in progress
    meas,             \* the text loop of YogaMeasureFunc in progress
    \* --- the style adapter and BuildBox applied to one style (SpecStyle)
    ynode,            \* the node style ApplyYogaStyleToNode produced
    built_box,        \* the Box BuildBox produced
    \* --- the solver's callbacks on one measured node (SpecCallbacks)
    callback,         \* the node, the arguments of the last call and what it returned
    \* --- a font family and the handle caches of its faces (SpecFonts)
    fonts             \* the faces, the last request and the initialisations made

vars == <<children, kind, computed, box, offset, scrollable_overflow, scroll_offset,
          lines, pc, root, nodes, config, calls, written, regenerated, context_of, generated,
          previous_lines, text_env,
          clamps, gen, meas, ynode, built_box, callback, released, write_log, fonts>>

\* ------------------------------------------------------------------ styles
\* Style::LengthPercentageAuto and Style::LengthPercentage values.
Length(v) == [type |-> "Length", value |-> v]
Percentage(v) == [type |-> "Percentage", value |-> v]
Auto == [type |-> "Auto", value |-> 0]

OverflowValues == {"Visible", "Hidden", "Scroll", "Auto"}

\* The computed values the model carries.  'none' for a max dimension is FLT_MAX.
FLT_MAX == Length(large + large)
DefaultStyle ==
    [display |-> "Block", position |-> "Static", direction |-> "Auto",
     box_sizing |-> "ContentBox",
     overflow_x |-> "Visible", overflow_y |-> "Visible",
     width |-> Auto, height |-> Auto,
     min_width |-> Length(0), min_height |-> Length(0),
     max_width |-> FLT_MAX, max_height |-> FLT_MAX,
     margin_top |-> Length(0), margin_right |-> Length(0),
     margin_bottom |-> Length(0), margin_left |-> Length(0),
     padding_top |-> Length(0), padding_right |-> Length(0),
     padding_bottom |-> Length(0), padding_left |-> Length(0),
     border_top_width |-> 0, border_right_width |-> 0,
     border_bottom_width |-> 0, border_left_width |-> 0]

ToYogaPositionType(v) ==
    CASE v = "Static" -> "YGPositionTypeStatic"
      [] v = "Relative" -> "YGPositionTypeRelative"
      [] v = "Absolute" -> "YGPositionTypeAbsolute"
      [] v = "Fixed" -> "YGPositionTypeAbsolute"
      [] OTHER -> "YGPositionTypeRelative"

ToYogaDirection(v) ==
    CASE v = "Auto" -> "YGDirectionInherit"
      [] v = "Ltr" -> "YGDirectionLTR"
      [] v = "Rtl" -> "YGDirectionRTL"
      [] OTHER -> "YGDirectionLTR"

ToYogaOverflow(v) ==
    CASE v = "Visible" -> "YGOverflowVisible"
      [] v = "Hidden" -> "YGOverflowHidden"
      [] v = "Scroll" -> "YGOverflowScroll"
      [] v = "Auto" -> "YGOverflowScroll"
      [] OTHER -> "YGOverflowVisible"

ToYogaBoxSizing(v) ==
    CASE v = "ContentBox" -> "YGBoxSizingContentBox"
      [] v = "BorderBox" -> "YGBoxSizingBorderBox"
      [] OTHER -> "YGBoxSizingContentBox"

\* The values of a Yoga node style: what the YGNodeStyleSet* setters leave.
YGUndefined == [unit |-> "YGUnitUndefined", value |-> 0]
YGAuto == [unit |-> "YGUnitAuto", value |-> 0]
YGPoint(v) == [unit |-> "YGUnitPoint", value |-> v]
YGPercent(v) == [unit |-> "YGUnitPercent", value |-> v]

\* The style of a node fresh from YGNodeNewWithConfig, for the properties the model
\* carries: dimensions auto, min and max dimensions and edges undefined.
YGNodeStyleNew ==
    [display |-> "YGDisplayFlex", box_sizing |-> "YGBoxSizingBorderBox",
     width |-> YGAuto, height |-> YGAuto,
     min_width |-> YGUndefined, min_height |-> YGUndefined,
     max_width |-> YGUndefined, max_height |-> YGUndefined,
     margin |-> [top |-> YGUndefined, right |-> YGUndefined,
                 bottom |-> YGUndefined, left |-> YGUndefined],
     padding |-> [top |-> YGUndefined, right |-> YGUndefined,
                  bottom |-> YGUndefined, left |-> YGUndefined],
     border |-> [top |-> YGUndefined, right |-> YGUndefined,
                 bottom |-> YGUndefined, left |-> YGUndefined],
     position_type |-> "YGPositionTypeRelative", overflow |-> "YGOverflowVisible"]

\* SetYogaDimension on a width or height that is `current`: dispatch on the type.
SetYogaDimension(current, value) ==
    CASE value.type = "Auto" -> YGAuto
      [] value.type = "Length" -> YGPoint(value.value)
      [] value.type = "Percentage" -> YGPercent(value.value)
      [] OTHER -> current

\* SetYogaMinDimension on a min dimension that is `current`.
SetYogaMinDimension(current, value) ==
    CASE value.type = "Length" -> YGPoint(value.value)
      [] value.type = "Percentage" -> YGPercent(value.value)
      [] OTHER -> current

\* SetYogaMaxDimension on a max dimension that is `current`: a length above the 'none'
\* threshold returns before any setter, and the node keeps what it had.
SetYogaMaxDimension(current, value) ==
    IF value.type = "Length" /\ value.value > MaxDimensionNone
    THEN current
    ELSE CASE value.type = "Length" -> YGPoint(value.value)
           [] value.type = "Percentage" -> YGPercent(value.value)
           [] OTHER -> current

\* SetYogaMargin and SetYogaPadding on an edge that is `current`.
SetYogaMargin(current, value) ==
    CASE value.type = "Auto" -> YGAuto
      [] value.type = "Length" -> YGPoint(value.value)
      [] value.type = "Percentage" -> YGPercent(value.value)
      [] OTHER -> current

SetYogaPadding(current, value) ==
    CASE value.type = "Length" -> YGPoint(value.value)
      [] value.type = "Percentage" -> YGPercent(value.value)
      [] OTHER -> current

\* The single overflow of a node, from the two axes.
CombinedOverflowOfX(overflow_x, overflow_y) == overflow_x
CombinedOverflow(overflow_x, overflow_y) ==
    IF overflow_y = "Hidden" \/ overflow_x = "Hidden" THEN "Hidden"
    ELSE IF overflow_y = "Scroll" \/ overflow_y = "Auto"
            \/ overflow_x = "Scroll" \/ overflow_x = "Auto" THEN "Scroll"
    ELSE "Visible"

\* ApplyYogaStyleToNode on a node whose style is `style`, for an element with computed
\* values c.  (The flex properties, the gaps and the position offsets are copied
\* setter by setter in the same way and are not carried here.)
ApplyYogaStyleToNode(style, c) ==
    [display |-> IF c.display = "None" THEN "YGDisplayNone" ELSE "YGDisplayFlex",
     box_sizing |-> ToYogaBoxSizing(c.box_sizing),
     width |-> SetYogaDimension(style.width, c.width),
     height |-> SetYogaDimension(style.height, c.height),
     min_width |-> SetYogaMinDimension(style.min_width, c.min_width),
     min_height |-> SetYogaMinDimension(style.min_height, c.min_height),
     max_width |-> SetYogaMaxDimension(style.max_width, c.max_width),
     max_height |-> SetYogaMaxDimension(style.max_height, c.max_height),
     margin |-> [top |-> SetYogaMargin(style.margin.top, c.margin_top),
                 right |-> SetYogaMargin(style.margin.right, c.margin_right),
                 bottom |-> SetYogaMargin(style.margin.bottom, c.margin_bottom),
                 left |-> SetYogaMargin(style.margin.left, c.margin_left)],
     padding |-> [top |-> SetYogaPadding(style.padding.top, c.padding_top),
                  right |-> SetYogaPadding(style.padding.right, c.padding_right),
                  bottom |-> SetYogaPadding(style.padding.bottom, c.padding_bottom),
                  left |-> SetYogaPadding(style.padding.left, c.padding_left)],
     border |-> [top |-> YGPoint(c.border_top_width),
                 right |-> YGPoint(c.border_right_width),
                 bottom |-> YGPoint(c.border_bottom_width),
                 left |-> YGPoint(c.border_left_width)],
     position_type |-> ToYogaPositionType(c.position),
     overflow |-> ToYogaOverflow(CombinedOverflow(c.overflow_x, c.overflow_y))]

\* ------------------------------------------------------ the element tree
\* Element::GetNumChildren, Element::GetChild (index from 0), Element::GetParentNode.
GetNumChildren(element) == Len(children[element])
GetChild(element, i) == children[element][i + 1]
GetParentNode(element) ==
    IF \E p \in Elem : \E i \in 1..Len(children[p]) : children[p][i] = element
    THEN CHOOSE p \in Elem : \E i \in 1..Len(children[p]) : children[p][i] = element
    ELSE Null

\* ---------------------------------------------------------- the tree builder
\* YGNodeNewWithConfig: a node with Yoga's defaults.
NewNode ==
    [context |-> Null, style |-> YGNodeStyleNew, children |-> <<>>,
     measure |-> FALSE, baseline |-> FALSE, direction |-> "YGDirectionInherit",
     layout |-> [left |-> 0, top |-> 0, width |-> 0, height |-> 0,
                 margin |-> [left |-> 0, top |-> 0, right |-> 0, bottom |-> 0],
                 padding |-> [left |-> 0, top |-> 0, right |-> 0, bottom |-> 0],
                 border |-> [left |-> 0, top |-> 0, right |-> 0, bottom |-> 0]]]

\* `if (is_leaf && (is_text || is_replaced))`: the node gets the measure callback and
\* the child slots of the element are not visited.
NeedsMeasureAnyText(is_leaf, is_text, is_replaced) == is_text \/ is_replaced
NeedsMeasure(is_leaf, is_text, is_replaced) == is_leaf /\ (is_text \/ is_replaced)

RECURSIVE BuildYogaTreeRecursive(_, _)
RECURSIVE BuildChildren(_, _, _, _)

\* The loop over the child slots of `element` from slot i on; node `id` is its node.
BuildChildren(element, id, i, tbl) ==
    IF i >= GetNumChildren(element) THEN tbl
    ELSE LET child == GetChild(element, i) IN
         IF child = Null THEN BuildChildren(element, id, i + 1, tbl)
         ELSE LET r == BuildYogaTreeRecursive(child, tbl)
                  \* YGNodeInsertChild(node, ..., YGNodeGetChildCount(node))
                  t == [r.nodes EXCEPT ![id].children = Append(@, r.id)]
              IN BuildChildren(element, id, i + 1, t)

\* BuildYogaTreeRecursive(element, config): the node table with the subtree of
\* `element` added, and the id of the node created for `element`.
BuildYogaTreeRecursive(element, tbl) ==
    LET id == Len(tbl) + 1
        node == [NewNode EXCEPT !.context = element,
                                !.style = ApplyYogaStyleToNode(NewNode.style, computed[element])]
        is_leaf == GetNumChildren(element) = 0
        is_text == kind[element] = "text"
        is_replaced == kind[element] = "replaced"
        t == IF NeedsMeasure(is_leaf, is_text, is_replaced)
             THEN Append(tbl, [node EXCEPT !.measure = TRUE, !.baseline = is_text])
             ELSE BuildChildren(element, id, 0, Append(tbl, node))
    IN [nodes |-> [t EXCEPT ![id].direction = ToYogaDirection(computed[element].direction)],
        id |-> id]


\* ------------------------------------------------------------------ boxes
Edges(l, t, r, b) == [left |-> l, top |-> t, right |-> r, bottom |-> b]
NoEdges == Edges(0, 0, 0, 0)

\* Box{}: content (0, 0) and every edge 0.
EmptyBox == [content |-> <<0, 0>>, margin |-> NoEdges, border |-> NoEdges, padding |-> NoEdges]

\* Box::GetPosition(area): the top-left corner of the area, relative to the
\* top-left corner of the border area.
BoxGetPosition(b, area) ==
    CASE area = "Margin" -> <<-b.margin.left, -b.margin.top>>
      [] area = "Border" -> <<0, 0>>
      [] area = "Padding" -> <<b.border.left, b.border.top>>
      [] area = "Content" -> <<b.border.left + b.padding.left, b.border.top + b.padding.top>>

\* Box::GetSize(area): the content size grown by the edges of the areas inside `area`.
BoxGetSize(b, area) ==
    LET pad == <<b.padding.left + b.padding.right, b.padding.top + b.padding.bottom>>
        bor == <<b.border.left + b.border.right, b.border.top + b.border.bottom>>
        mar == <<b.margin.left + b.margin.right, b.margin.top + b.margin.bottom>>
    IN CASE area = "Content" -> b.content
         [] area = "Padding" -> <<b.content[1] + pad[1], b.content[2] + pad[2]>>
         [] area = "Border" -> <<b.content[1] + pad[1] + bor[1], b.content[2] + pad[2] + bor[2]>>
         [] area = "Margin" -> <<b.content[1] + pad[1] + bor[1] + mar[1],
                                 b.content[2] + pad[2] + bor[2] + mar[2]>>

\* ------------------------------------------------- LayoutDetails::BuildBox
\* ResolveValue and ResolveValueOr of the computed-values helpers: a length is its
\* value, a percentage is that share of the base value, auto is the default.  (The
\* samples below keep the share a whole number.)
ResolveValueOr(v, base_value, default_value) ==
    CASE v.type = "Length" -> v.value
      [] v.type = "Percentage" -> (v.value * base_value) \div 100
      [] OTHER -> default_value

ResolveValue(v, base_value) == ResolveValueOr(v, base_value, 0)

ResolveAgainstWidth(v, containing_width, default_value) ==
    ResolveValueOr(v, containing_width, default_value)

\* ClampMaxValue: a value at or above `large` becomes -1, "no constraint".
ClampMaxValue(v) == IF v >= large THEN -1 ELSE v

\* "Box sizing": a definite size in border-box loses the padding and border.
BorderBoxContentUnfloored(box_sizing, content, border_padding) ==
    IF box_sizing = "BorderBox" /\ content >= 0 THEN content - border_padding ELSE content
BorderBoxContent(box_sizing, content, border_padding) ==
    IF box_sizing = "BorderBox" /\ content >= 0
    THEN Max(0, content - border_padding)
    ELSE content

\* "Clamp to min/max constraints when definite", one axis.
ClampToMinMaxAlways(content, min_value, max_value, base_value) ==
    LET min_v == ResolveValue(min_value, base_value)
        max_v == ClampMaxValue(ResolveValue(max_value, base_value))
    IN IF max_v >= 0 THEN Min(Max(content, min_v), max_v) ELSE Max(content, min_v)
ClampToMinMax(content, min_value, max_value, base_value) ==
    IF content >= 0
    THEN LET min_v == ResolveValue(min_value, base_value)
             max_v == ClampMaxValue(ResolveValue(max_value, base_value))
             at_least == Max(content, min_v)
         IN IF max_v >= 0 THEN Min(at_least, max_v) ELSE at_least
    ELSE content

\* "Horizontal auto margins": the condition under which the remaining space is
\* computed and, if positive, distributed.
DistributesAutoMarginsInAnyMode(margin_left_auto, margin_right_auto, content_width, cb_width, box_mode) ==
    (margin_left_auto \/ margin_right_auto) /\ content_width >= 0 /\ cb_width >= 0
DistributesAutoMargins(margin_left_auto, margin_right_auto, content_width, cb_width, box_mode) ==
    /\ margin_left_auto \/ margin_right_auto
    /\ content_width >= 0
    /\ cb_width >= 0
    /\ box_mode = "Block"

\* BuildBox(box, containing_block, element, box_mode): the Box it leaves for an
\* element with computed values c; NullElement is a null element pointer.
NullElement == [null |-> TRUE]
BuildBoxModes == {"Inline", "UnalignedBlock", "Block"}

BuildBox(containing_block, c, box_mode) ==
    IF c = NullElement THEN [EmptyBox EXCEPT !.content = containing_block]
    ELSE
    LET cb_width == containing_block[1]
        cb_height == containing_block[2]
        padding_top == ResolveAgainstWidth(c.padding_top, cb_width, 0)
        padding_right == ResolveAgainstWidth(c.padding_right, cb_width, 0)
        padding_bottom == ResolveAgainstWidth(c.padding_bottom, cb_width, 0)
        padding_left == ResolveAgainstWidth(c.padding_left, cb_width, 0)
        border_top == c.border_top_width
        border_right == c.border_right_width
        border_bottom == c.border_bottom_width
        border_left == c.border_left_width
        border_padding_x == padding_left + padding_right + border_left + border_right
        border_padding_y == padding_top + padding_bottom + border_top + border_bottom
        margin_left_auto == c.margin_left.type = "Auto"
        margin_right_auto == c.margin_right.type = "Auto"
        margin_left0 == IF margin_left_auto \/ box_mode = "Inline" THEN 0
                        ELSE ResolveAgainstWidth(c.margin_left, cb_width, 0)
        margin_right0 == IF margin_right_auto \/ box_mode = "Inline" THEN 0
                         ELSE ResolveAgainstWidth(c.margin_right, cb_width, 0)
        margin_top == IF c.margin_top.type = "Auto" THEN 0
                      ELSE ResolveAgainstWidth(c.margin_top, cb_width, 0)
        margin_bottom == IF c.margin_bottom.type = "Auto" THEN 0
                         ELSE ResolveAgainstWidth(c.margin_bottom, cb_width, 0)
        \* Dimensions. Negative content size indicates 'auto'.
        width0 == IF box_mode = "Inline" THEN -1 ELSE ResolveValueOr(c.width, cb_width, -1)
        height0 == IF box_mode = "Inline" THEN -1 ELSE ResolveValueOr(c.height, cb_height, -1)
        content_width == ClampToMinMax(BorderBoxContent(c.box_sizing, width0, border_padding_x),
                                       c.min_width, c.max_width, cb_width)
        content_height == ClampToMinMax(BorderBoxContent(c.box_sizing, height0, border_padding_y),
                                        c.min_height, c.max_height, cb_height)
        \* Horizontal auto margins.
        distribute == DistributesAutoMargins(margin_left_auto, margin_right_auto,
                                             content_width, cb_width, box_mode)
        fixed == content_width + border_padding_x
                 + (IF margin_left_auto THEN 0 ELSE margin_left0)
                 + (IF margin_right_auto THEN 0 ELSE margin_right0)
        remaining == cb_width - fixed
        margin_left == IF distribute /\ remaining > 0
                       THEN IF margin_left_auto /\ margin_right_auto THEN remaining \div 2
                            ELSE IF margin_left_auto THEN remaining
                            ELSE margin_left0
                       ELSE margin_left0
        margin_right == IF distribute /\ remaining > 0
                        THEN IF margin_left_auto /\ margin_right_auto THEN remaining \div 2
                             ELSE IF margin_left_auto THEN margin_right0
                             ELSE remaining
                        ELSE margin_right0
    IN [content |-> <<content_width, content_height>>,
        margin |-> Edges(margin_left, margin_top, margin_right, margin_bottom),
        border |-> Edges(border_left, border_top, border_right, border_bottom),
        padding |-> Edges(padding_left, padding_top, padding_right, padding_bottom)]

\* ------------------------------------------------------- the flex solver
\* The solver is a black box: YGNodeCalculateLayout leaves on every node a resolved
\* left/top/width/height and per-edge margin/padding/border.  Its results are drawn
\* from these geometries (whole pixels): an ordinary box; one whose outer width is
\* smaller than its padding and border, at a negative top; one with a negative
\* outer width and a negative margin, placed far to the right.
SolverSamples ==
    << [left |-> 1, top |-> 0, width |-> 6, height |-> 4,
        margin |-> Edges(1, 0, 0, 2), padding |-> Edges(1, 1, 1, 0), border |-> Edges(1, 1, 1, 1)],
       [left |-> 0, top |-> -3, width |-> 1, height |-> 5,
        margin |-> NoEdges, padding |-> Edges(1, 1, 1, 1), border |-> Edges(1, 0, 1, 0)],
       [left |-> 7, top |-> 2, width |-> -2, height |-> 9,
        margin |-> Edges(-1, 0, 0, 0), padding |-> Edges(0, 2, 0, 0), border |-> NoEdges] >>

Seeds == 0..(Len(SolverSamples) - 1)

\* One outcome of the solver: node n gets the geometry (n + seed) of the samples, so
\* that over the seeds every node gets every geometry and parent and child differ.
YGNodeCalculateLayout(tbl, seed) ==
    [n \in 1..Len(tbl) |->
        [left |-> SolverSamples[((n + seed) % Len(SolverSamples)) + 1].left,
         top |-> SolverSamples[((n + seed) % Len(SolverSamples)) + 1].top,
         width |-> SolverSamples[((n + seed) % Len(SolverSamples)) + 1].width,
         height |-> SolverSamples[((n + seed) % Len(SolverSamples)) + 1].height,
         margin |-> SolverSamples[((n + seed) % Len(SolverSamples)) + 1].margin,
         padding |-> SolverSamples[((n + seed) % Len(SolverSamples)) + 1].padding,
         border |-> SolverSamples[((n + seed) % Len(SolverSamples)) + 1].border]]

\* ------------------------------------------------- text and font service
\* ElementText::GenerateLine is the line-break service.  One answer of it:
Response(line, line_length, line_width, reached_end) ==
    [line |-> line, line_length |-> line_length, line_width |-> line_width,
     reached_end |-> reached_end]

Consume == Response("x", 1, Px(3), FALSE)      \* a line, more text follows
ConsumeEnd == Response("yz", 2, Px(5), TRUE)   \* the last line
Stall == Response("junk", 0, Px(1), FALSE)     \* nothing consumed, end not reported
Negative == Response("", -1, 0, FALSE)         \* a negative length
EndOfText == Response("", 0, 0, TRUE)          \* nothing left

Responses == {Consume, ConsumeEnd, Stall, Negative, EndOfText}

\* A behaviour of the service: `script` is what it answers to the 1st, 2nd, ...
\* request, and `tail` what it answers to every request after those.
Service(script, tail) == [script |-> script, tail |-> tail]
GenerateLine(service, it) ==
    IF it + 1 <= Len(service.script) THEN service.script[it + 1] ELSE service.tail

\* FontEngineInterface::GetFontMetrics and ElementText::GetLineHeight, in half
\* pixels; font_face FALSE is a null font face handle.
Font(font_face, ascent, descent, line_height) ==
    [font_face |-> font_face, ascent |-> ascent, descent |-> descent,
     line_height |-> line_height]

NoFont == Font(FALSE, 0, 0, 0)

\* FontMetrics metrics{}; if (font_face) metrics = font_engine->GetFontMetrics(font_face).
Metrics(font) ==
    IF font.font_face THEN [ascent |-> font.ascent, descent |-> font.descent]
    ELSE [ascent |-> 0, descent |-> 0]

\* ------------------------------------------------------ GenerateTextLines
\* ElementText::ClearLines and ElementText::AddLine on a line list.
ClearLines(ls) == <<>>
AddLine(ls, position, text) == Append(ls, [position |-> position, text |-> text])

\* font_height, line_height, leading and baseline_offset of GenerateTextLines.
BaselineOffset(font) ==
    LET metrics == Metrics(font)
        font_height == Max(0, metrics.ascent + Abs(metrics.descent))
        line_height == Max(0, font.line_height)
        leading == Max(0, line_height - font_height)
    IN Floor(leading \div 2 + metrics.ascent)

\* The loop condition `it < max_iterations`.
WithinIterations(it) == it < max_iterations

\* `if (line_index == 0)` before the empty line is added.
EmptyLineNeededAlways(line_index) == TRUE
EmptyLineNeeded(line_index) == line_index = 0

\* The local variables of GenerateTextLines before its loop.
GenLoopStart ==
    [it |-> 0, line_begin |-> 0, line_index |-> 0, done |-> FALSE]

\* One iteration of the loop of GenerateTextLines: the request was answered `resp`.
\* g is the loop's variables, ls the line list of the element.
GenerateTextLinesIter(g, ls, resp, font) ==
    LET baseline_offset == BaselineOffset(font)
        line_height == Max(0, font.line_height)
    IN IF resp.line_length <= 0
       THEN [g |-> [g EXCEPT !.it = @ + 1, !.done = TRUE],
             lines |-> IF EmptyLineNeeded(g.line_index)
                       THEN AddLine(ls, <<0, baseline_offset>>, "")
                       ELSE ls]
       ELSE [g |-> [it |-> g.it + 1,
                    line_begin |-> g.line_begin + resp.line_length,
                    line_index |-> g.line_index + 1,
                    done |-> resp.reached_end],
             lines |-> AddLine(ls, <<0, baseline_offset + g.line_index * line_height>>,
                               resp.line)]

RECURSIVE GenerateTextLinesLoop(_, _, _, _)
GenerateTextLinesLoop(g, ls, font, service) ==
    IF g.done \/ ~WithinIterations(g.it) THEN ls
    ELSE LET r == GenerateTextLinesIter(g, ls, GenerateLine(service, g.it), font)
         IN GenerateTextLinesLoop(r.g, r.lines, font, service)

GenerateTextLinesNoClear(ls, available_width, font, service) ==
    GenerateTextLinesLoop(GenLoopStart, ls, font, service)

\* GenerateTextLines(text_element, available_width): the new line list of an element
\* whose list was ls.  (available_width only bounds what the service may return.)
GenerateTextLines(ls, available_width, font, service) ==
    GenerateTextLinesLoop(GenLoopStart, ClearLines(ls), font, service)

\* --------------------------------------------- YogaMeasureFunc, text nodes
\* The loop condition `it < max_iterations` of the measure loop.
MeasureWithinIterationsOff(it) == it <= max_iterations
MeasureWithinIterations(it) == it < max_iterations

\* `if (line_length <= 0)` in the measure loop: both branches break.
MeasureStopsOnZero(line_length) == line_length <= 0

MeasureLoopStart ==
    [it |-> 0, line_begin |-> 0, num_lines |-> 0, max_line_width |-> 0, done |-> FALSE]

\* One iteration of the text loop of YogaMeasureFunc.
MeasureIter(m, resp) ==
    IF MeasureStopsOnZero(resp.line_length)
    THEN [m EXCEPT !.it = @ + 1, !.done = TRUE]
    ELSE [it |-> m.it + 1,
          line_begin |-> m.line_begin + resp.line_length,
          num_lines |-> m.num_lines + 1,
          max_line_width |-> Max(m.max_line_width, resp.line_width),
          done |-> resp.reached_end]

\* `if (num_lines == 0) num_lines = 1`.
NumLinesAsCounted(num_lines) == num_lines
AtLeastOneLine(num_lines) == IF num_lines = 0 THEN 1 ELSE num_lines

\* The clamp of one measured dimension under a measure mode.
RespectMeasureMode(measured, mode, constraint) ==
    CASE mode = "Exactly" -> Max(0, constraint)
      [] mode = "AtMost" -> Min(measured, Max(0, constraint))
      [] OTHER -> measured

\* What YogaMeasureFunc returns for a text node once its loop has ended with m.
MeasureText(m, font, width, width_mode, height, height_mode) ==
    LET num_lines == AtLeastOneLine(m.num_lines)
        metrics == Metrics(font)
        tight_height == Max(0, metrics.ascent + Abs(metrics.descent))
    IN [num_lines |-> num_lines,
        width |-> RespectMeasureMode(m.max_line_width, width_mode, width),
        height |-> RespectMeasureMode(num_lines * tight_height, height_mode, height)]

\* The text loop of YogaMeasureFunc from state m to its end.
RECURSIVE MeasureLoop(_, _)
MeasureLoop(m, service) ==
    IF m.done \/ ~MeasureWithinIterations(m.it) THEN m
    ELSE MeasureLoop(MeasureIter(m, GenerateLine(service, m.it)), service)

\* --------------------------------------- YogaMeasureFunc, replaced elements
\* Element::GetIntrinsicDimensions: whether the element has intrinsic dimensions,
\* the dimensions, and the ratio as the fraction num / den (den > 0).
Intrinsic(has, width, height, num, den) ==
    [has |-> has, dimensions |-> <<width, height>>, ratio |-> [num |-> num, den |-> den]]

NoIntrinsic == Intrinsic(FALSE, 0, 0, 0, 1)

\* `width_definite`, `height_definite`.
DefiniteOnlyExactly(mode) == mode = "Exactly"
Definite(mode) == mode = "Exactly" \/ mode = "AtMost"

\* `if (intrinsic_ratio > 0.f)`.
RatioUsable(ratio) == ratio.num > 0

\* measured_width / intrinsic_ratio and measured_height * intrinsic_ratio.
DivideByRatio(v, ratio) == (v * ratio.den) \div ratio.num
TimesRatio(v, ratio) == (v * ratio.num) \div ratio.den

\* What YogaMeasureFunc returns for an element that is not a text element.
MeasureReplaced(intrinsic, width, width_mode, height, height_mode) ==
    IF intrinsic.has
    THEN LET clamped_width == RespectMeasureMode(intrinsic.dimensions[1], width_mode, width)
             clamped_height == RespectMeasureMode(intrinsic.dimensions[2], height_mode, height)
             width_definite == Definite(width_mode)
             height_definite == Definite(height_mode)
             measured_height ==
                 IF RatioUsable(intrinsic.ratio) /\ width_definite /\ ~height_definite
                 THEN DivideByRatio(clamped_width, intrinsic.ratio)
                 ELSE clamped_height
             measured_width ==
                 IF RatioUsable(intrinsic.ratio) /\ height_definite /\ ~width_definite
                 THEN TimesRatio(clamped_height, intrinsic.ratio)
                 ELSE clamped_width
         IN [width |-> Max(0, measured_width), height |-> Max(0, measured_height)]
    ELSE [width |-> 0, height |-> 0]

\* YogaMeasureFunc(node, width, width_mode, height, height_mode) on the node of
\* `element`: a null context, a text element, or any other element.
YogaMeasureFunc(element, width, width_mode, height, height_mode) ==
    IF element.kind = "null" THEN [width |-> 0, height |-> 0]
    ELSE IF element.kind = "text"
    THEN LET r == MeasureText(MeasureLoop(MeasureLoopStart, element.service), element.font,
                              width, width_mode, height, height_mode)
         IN [width |-> r.width, height |-> r.height]
    ELSE MeasureReplaced(element.intrinsic, width, width_mode, height, height_mode)

\* ------------------------------------------------------- YogaBaselineFunc
\* The baseline of a text element: `leading * 0.5f + metrics.ascent`.
TextBaseline(font) ==
    LET metrics == Metrics(font)
        line_height == Max(0, font.line_height)
        font_height == Max(0, metrics.ascent + Abs(metrics.descent))
        leading == Max(0, line_height - font_height)
    IN leading \div 2 + metrics.ascent

\* YogaBaselineFunc(node, width, height) on the node of `element`.
YogaBaselineFunc(element, width, height) ==
    IF element.kind = "text" THEN TextBaseline(element.font) ELSE height

\* ------------------------------------------------------ the layout applier
\* content_width and content_height: max(0, outer size - padding - border).
ContentSizeUnclamped(outer, edges) == outer - edges
ContentSize(outer, edges) == Max(0, outer - edges)

\* scrollable_overflow_size: the padding box, grown to cover the children.
ScrollableOverflowSizeOfChildren(padding_size, padding_top_left, content_overflow) ==
    <<padding_top_left[1] + content_overflow[1], padding_top_left[2] + content_overflow[2]>>
ScrollableOverflowSize(padding_size, padding_top_left, content_overflow) ==
    <<Max(padding_size[1], padding_top_left[1] + content_overflow[1]),
      Max(padding_size[2], padding_top_left[2] + content_overflow[2])>>

\* Element::ClampScrollOffset: the scroll offset kept inside the scrollable area.
ClampScrollOffset(b, overflow, so) ==
    LET client == BoxGetSize(b, "Padding")
    IN <<Max(0, Min(so[1], Max(overflow[1], client[1]) - client[1])),
         Max(0, Min(so[2], Max(overflow[2], client[2]) - client[2]))>>

\* Element::SetScrollableOverflowRectangle(size, clamp_scroll_offset) on element
\* state st.
SetScrollableOverflowRectangle(st, element, size, clamp_scroll_offset) ==
    [st EXCEPT !.scrollable_overflow[element] = size,
               !.scroll_offset[element] =
                   IF clamp_scroll_offset THEN ClampScrollOffset(st.box[element], size, @) ELSE @,
               !.clamping_writes = IF clamp_scroll_offset THEN @ + 1 ELSE @,
               !.log = Append(@, <<"overflow", element, clamp_scroll_offset>>)]

\* The `clamp_scroll_offset` argument the applier passes: the scroll offset is not
\* clamped during layouting.
ClampWhileLayoutingOn == TRUE
ClampWhileLayouting == FALSE

\* Element::GetRelativeOffset(area): the offset set by SetOffset, to the given area.
GetRelativeOffset(st, element, area) ==
    LET p == BoxGetPosition(st.box[element], area)
    IN <<st.offset[element].position[1] + p[1], st.offset[element].position[2] + p[2]>>

\* "Expand scrollable content overflow by child's border box."
ExpandOverflowToLastChild(content_overflow, in_content, child_border_size) ==
    <<in_content[1] + child_border_size[1], in_content[2] + child_border_size[2]>>
ExpandOverflow(content_overflow, in_content, child_border_size) ==
    <<Max(content_overflow[1], in_content[1] + child_border_size[1]),
      Max(content_overflow[2], in_content[2] + child_border_size[2])>>

RECURSIVE ApplyLayoutRecursive(_, _, _, _, _, _)
RECURSIVE ApplyChildren(_, _, _, _, _, _, _, _)

\* The loop over i < child_count of ApplyLayoutRecursive, from i on: the element
\* state after it, and content_overflow.
ApplyChildren(element, node, i, child_count, element_content_position, content_overflow, st, env) ==
    IF i >= child_count THEN [st |-> st, content_overflow |-> content_overflow]
    ELSE LET child == GetChild(element, i)
             child_node == env.nodes[node].children[i + 1]
         IN IF child = Null
            THEN ApplyChildren(element, node, i + 1, child_count, element_content_position,
                               content_overflow, st, env)
            ELSE LET st1 == ApplyLayoutRecursive(child, child_node, element, <<0, 0>>, st, env)
                     in_border == GetRelativeOffset(st1, child, "Border")
                     in_content == <<in_border[1] - element_content_position[1],
                                     in_border[2] - element_content_position[2]>>
                     child_border_size == BoxGetSize(st1.box[child], "Border")
                     grown == ExpandOverflow(content_overflow, in_content, child_border_size)
                 IN ApplyChildren(element, node, i + 1, child_count, element_content_position,
                                  grown, st1, env)

\* ApplyLayoutRecursive(element, node, offset_parent, parent_content_position) on
\* element state st; env is the node table, the font and the line-break service of the pass.
ApplyLayoutRecursive(element, node, offset_parent, parent_content_position, st, env) ==
    LET l == env.nodes[node].layout
        content_width == ContentSize(l.width, l.padding.left + l.padding.right
                                              + l.border.left + l.border.right)
        content_height == ContentSize(l.height, l.padding.top + l.padding.bottom
                                                + l.border.top + l.border.bottom)
        b == [content |-> <<content_width, content_height>>,
              margin |-> l.margin, border |-> l.border, padding |-> l.padding]
        border_position == <<parent_content_position[1] + l.left,
                             parent_content_position[2] + l.top>>
        \* element->SetOffset(border_position, offset_parent, false); element->SetBox(box)
        st1 == [st EXCEPT !.offset[element] = [position |-> border_position,
                                               parent |-> offset_parent],
                          !.box[element] = b,
                          !.written = @ \cup {element},
                          !.log = @ \o <<(<<"offset", element>>), (<<"box", element>>)>>,
                          !.calls = @ \cup {<<element, node>>}]
        element_content_position == BoxGetPosition(b, "Content")
        child_count == Min(Len(env.nodes[node].children), GetNumChildren(element))
        r == ApplyChildren(element, node, 0, child_count, element_content_position,
                           <<0, 0>>, st1, env)
        padding_top_left == <<l.padding.left, l.padding.top>>
        padding_size == <<content_width + l.padding.left + l.padding.right,
                          content_height + l.padding.top + l.padding.bottom>>
        st2 == SetScrollableOverflowRectangle(r.st, element,
                   ScrollableOverflowSize(padding_size, padding_top_left, r.content_overflow),
                   ClampWhileLayouting)
    IN IF kind[element] = "text"
       THEN [st2 EXCEPT !.lines[element] =
                            GenerateTextLines(@, Px(content_width), env.font, env.service),
                        !.log = Append(@, <<"lines", element>>),
                        !.regenerated = @ \cup {element}]
       ELSE st2

\* Element::ClampScrollOffsetRecursive: this element and its descendants.
RECURSIVE ClampScrollOffsetRecursive(_, _)
RECURSIVE ClampChildren(_, _, _)
ClampChildren(element, i, so) ==
    IF i >= GetNumChildren(element) THEN so
    ELSE IF GetChild(element, i) = Null THEN ClampChildren(element, i + 1, so)
    ELSE ClampChildren(element, i + 1, ClampScrollOffsetRecursive(GetChild(element, i), so))

ClampScrollOffsetRecursive(element, so) ==
    ClampChildren(element, 0,
        [so EXCEPT ![element] = ClampScrollOffset(box[element], scrollable_overflow[element], @)])

\* ------------------------------------------------ LayoutEngine::FormatElement
\* The element FormatElement is called with, and the containing blocks (both
\* components >= 0, as the function asserts).
PassRoots == {1}
ContainingBlocks == {<<8, 6>>}

NoTextEnv == [font |-> NoFont, service |-> Service(<<>>, EndOfText)]

\* The lines a service hands to one run of the line loop: the answers that consumed
\* something, up to the first that consumed nothing or reported the end.
RECURSIVE ServedFrom(_, _)
ServedFrom(service, it) ==
    LET resp == GenerateLine(service, it)
    IN IF it >= max_iterations \/ resp.line_length <= 0 THEN <<>>
       ELSE IF resp.reached_end THEN <<resp.line>>
       ELSE <<resp.line>> \o ServedFrom(service, it + 1)

\* The font and line-break service of a pass over a tree.
TextEnvs ==
    { \* two lines of text, a signed (negative) descent, an odd leading
      [font |-> Font(TRUE, Px(3), -Px(1), Px(5)), service |-> Service(<<Consume, ConsumeEnd>>, EndOfText)],
      \* empty text, no font face
      [font |-> Font(FALSE, Px(7), Px(7), Px(2)), service |-> Service(<<>>, EndOfText)],
      \* a line, then a request that consumes nothing; a negative line height
      [font |-> Font(TRUE, Px(2), Px(1), -Px(1)), service |-> Service(<<Consume, Stall>>, EndOfText)] }

\* FormatElement up to the solver: the wrapper node of the containing block, the
\* tree of the element under it, YGNodeCalculateLayout.  The node table.
BuildAndSolve(element, containing_block, seed) ==
    LET wrapper == [NewNode EXCEPT !.style.display = "YGDisplayFlex",
                                   !.style.width = YGPoint(containing_block[1]),
                                   !.style.height = YGPoint(containing_block[2])]
        r == BuildYogaTreeRecursive(element, <<wrapper>>)
        \* YGNodeInsertChild(wrapper, root_node, 0)
        tbl == [r.nodes EXCEPT ![1].children = <<r.id>>]
        dir == ToYogaDirection(computed[element].direction)
        owner_direction == IF dir = "YGDirectionInherit" THEN "YGDirectionLTR" ELSE dir
        solved == YGNodeCalculateLayout(tbl, seed)
    IN [n \in 1..Len(tbl) |->
           [tbl[n] EXCEPT !.layout = solved[n],
                          !.direction = IF n = 1 THEN owner_direction ELSE @]]

\* FormatElement, "Apply results back to element tree": the element state after it.
ApplyResults(element, tbl, env) ==
    LET offset_parent == GetParentNode(element)
        parent_content_position ==
            IF offset_parent # Null
            THEN BoxGetPosition(box[offset_parent], "Content")
            ELSE <<0, 0>>
        root_node == tbl[1].children[1]
        st0 == [box |-> box, offset |-> offset,
                scrollable_overflow |-> scrollable_overflow,
                scroll_offset |-> scroll_offset, lines |-> lines,
                calls |-> {}, written |-> {}, regenerated |-> {}, log |-> <<>>,
                clamping_writes |-> 0]
    IN ApplyLayoutRecursive(element, root_node, offset_parent, parent_content_position, st0,
                            [nodes |-> tbl, font |-> env.font, service |-> env.service])

\* FormatElement from its start to the end of the apply phase.
FormatElement ==
    /\ pc = "idle"
    /\ \E element \in PassRoots, containing_block \in ContainingBlocks, seed \in Seeds,
          env \in TextEnvs :
          \E tbl \in {BuildAndSolve(element, containing_block, seed)} :
             \E st \in {ApplyResults(element, tbl, env)} :
                /\ nodes' = tbl
                /\ released' = [nodes |-> [n \in 1..Len(tbl) |-> 0], config |-> 0]
                /\ context_of' = [n \in 1..Len(tbl) |-> tbl[n].context]
                /\ root' = element
                /\ box' = st.box
                /\ offset' = st.offset
                /\ scrollable_overflow' = st.scrollable_overflow
                /\ scroll_offset' = st.scroll_offset
                /\ lines' = st.lines
                /\ calls' = st.calls
                /\ written' = st.written
                /\ write_log' = st.log
                /\ regenerated' = st.regenerated
                /\ clamps' = [recursive |-> 0, clamping_writes |-> st.clamping_writes]
                /\ generated' = [e \in Elem |-> IF e \in st.regenerated
                                                 THEN ServedFrom(env.service, 0) ELSE <<>>]
                /\ text_env' = IF st.regenerated = {} THEN NoTextEnv ELSE env
    /\ previous_lines' = lines
    /\ config' = TRUE
    /\ pc' = "applied"
    /\ UNCHANGED <<children, kind, computed, gen, meas, ynode, built_box, callback, fonts>>

\* YGNodeRemoveChild(owner, child): the node table without that edge.
YGNodeRemoveChild(tbl, owner, child) ==
    [tbl EXCEPT ![owner].children = SelectSeq(@, LAMBDA c : c # child)]

\* YGNodeFree(node): one more free of that node.
YGNodeFree(node, freed) == [freed EXCEPT ![node] = @ + 1]

\* YGNodeFreeRecursive(root): the nodes under `node` are freed, then `node`.
RECURSIVE YGNodeFreeRecursive(_, _, _)
RECURSIVE FreeEach(_, _, _)
FreeEach(tbl, node_list, freed) ==
    IF node_list = <<>> THEN freed
    ELSE FreeEach(tbl, Tail(node_list), YGNodeFreeRecursive(tbl, Head(node_list), freed))

YGNodeFreeRecursive(tbl, node, freed) ==
    YGNodeFree(node, FreeEach(tbl, tbl[node].children, freed))

\* The nodes of the table that have not been freed.
AliveNodes(tbl, freed) ==
    LET alive == SelectSeq([n \in 1..Len(tbl) |-> n], LAMBDA n : freed[n] = 0)
    IN [k \in 1..Len(alive) |-> tbl[alive[k]]]

\* FormatElement, "Cleanup yoga tree": what has been freed after it.
CleanupWithoutWrapper(tbl, freed) ==
    YGNodeFreeRecursive(YGNodeRemoveChild(tbl, 1, tbl[1].children[1]), tbl[1].children[1], freed)

CleanupYogaTree(tbl, freed) ==
    LET wrapper == 1
        root_node == tbl[wrapper].children[1]
        detached == YGNodeRemoveChild(tbl, wrapper, root_node)
    IN YGNodeFree(wrapper, YGNodeFreeRecursive(detached, root_node, freed))

\* FormatElement, "Cleanup yoga tree" and the final ClampScrollOffsetRecursive.
FormatCleanup ==
    /\ pc = "applied"
    /\ \E freed \in {CleanupYogaTree(nodes, released.nodes)} :
          /\ nodes' = AliveNodes(nodes, freed)
          /\ released' = [nodes |-> freed, config |-> released.config + 1]
    /\ config' = FALSE
    /\ scroll_offset' = ClampScrollOffsetRecursive(root, scroll_offset)
    /\ clamps' = [clamps EXCEPT !.recursive = @ + 1]
    /\ write_log' = Append(write_log, <<"clamp", root>>)
    /\ pc' = "idle"
    /\ UNCHANGED <<children, kind, computed, box, offset, scrollable_overflow, lines,
                   root, calls, written, regenerated, context_of, generated,
                   previous_lines, text_env, gen, meas, ynode, built_box, callback, fonts>>

\* ------------------------------------------------------------ element trees
Kinds == {"plain", "text", "replaced"}

RECURSIVE SetToSeq(_)
SetToSeq(S) ==
    IF S = {} THEN <<>>
    ELSE LET m == CHOOSE x \in S : \A y \in S : x <= y
         IN <<m>> \o SetToSeq(S \ {m})

\* The trees over Elem rooted at 1: every other element is a child of a smaller one.
ParentMaps == {p \in [2..MaxElems -> Elem] : \A e \in 2..MaxElems : p[e] < e}
TreeOf(p) == [e \in Elem |-> SetToSeq({c \in 2..MaxElems : p[c] = e})]

\* The child lists of the trees, and those with one Null slot somewhere.
WithNull(t, e, i) == [t EXCEPT ![e] = SubSeq(@, 1, i) \o <<Null>> \o SubSeq(@, i + 1, Len(@))]
TreeShapes ==
    {TreeOf(p) : p \in ParentMaps}
    \cup {WithNull(x[1], x[2], x[3]) :
            x \in {y \in {TreeOf(p) : p \in ParentMaps} \X Elem \X (0..MaxElems) :
                     y[3] <= Len(y[1][y[2]])}}

\* The kinds of the elements of a tree: all plain, or one element that is text or
\* replaced among plain ones.
KindMaps ==
    {[e \in Elem |-> "plain"]}
    \cup {[e \in Elem |-> IF e = x[1] THEN x[2] ELSE "plain"] :
             x \in Elem \X {"text", "replaced"}}

\* What no specification but its own uses stays as this.
LoopOff == [pc |-> "off"]
NoStyleRun == [pc |-> "off"]

InitElements ==
    /\ box = [e \in Elem |-> EmptyBox]
    /\ offset = [e \in Elem |-> [position |-> <<0, 0>>, parent |-> Null]]
    /\ scrollable_overflow = [e \in Elem |-> <<0, 0>>]
    /\ pc = "idle"
    /\ root = Null
    /\ nodes = <<>>
    /\ config = FALSE
    /\ released = [nodes |-> <<>>, config |-> 0]
    /\ calls = {}
    /\ written = {}
    /\ write_log = <<>>
    /\ regenerated = {}
    /\ context_of = <<>>
    /\ generated = [e \in Elem |-> <<>>]
    /\ previous_lines = [e \in Elem |-> <<>>]
    /\ text_env = NoTextEnv
    /\ clamps = [recursive |-> 0, clamping_writes |-> 0]

\* Passes over a tree: any tree shape and kinds, default styles, every element
\* scrolled away from the origin.
Init ==
    /\ children \in TreeShapes
    /\ kind \in KindMaps
    /\ computed = [e \in Elem |-> DefaultStyle]
    /\ scroll_offset = [e \in Elem |-> <<5, 5>>]
    /\ lines = [e \in Elem |-> <<>>]
    /\ InitElements
    /\ gen = LoopOff
    /\ meas = LoopOff
    /\ ynode = NoStyleRun
    /\ built_box = NoStyleRun
    /\ callback = LoopOff
    /\ fonts = LoopOff

Next == FormatElement \/ FormatCleanup

Spec == Init /\ [][Next]_vars

\* ------------------------------------------ the line loops, step by step
\* SpecLines runs YogaMeasureFunc and then GenerateTextLines on text element 1, one
\* GenerateLine request per step, against any behaviour of the line-break service:
\* up to MaxScript scripted answers, then one answer repeated for ever.
RECURSIVE Scripts(_)
Scripts(n) ==
    IF n = 0 THEN {<<>>}
    ELSE Scripts(n - 1) \cup {Append(sc, r) : sc \in Scripts(n - 1), r \in Responses}

Tails == {Consume, Stall, EndOfText}

\* (A script that ends with the repeated answer is the behaviour of a shorter one.)
Services ==
    {Service(x[1], x[2]) :
        x \in {y \in Scripts(MaxScript) \X Tails : y[1] = <<>> \/ y[1][Len(y[1])] # y[2]}}

\* A call of the measure callback on the element and the state the element is in:
\* its font, the line list it holds, and the constraints (in half pixels) the solver
\* passes to YogaMeasureFunc.
TextRun(font, stale, width, width_mode, height, height_mode) ==
    [font |-> font, stale |-> stale, width |-> width, width_mode |-> width_mode,
     height |-> height, height_mode |-> height_mode]

TextRuns ==
    { TextRun(Font(TRUE, Px(3), -Px(1), Px(5)), <<>>, 0, "Undefined", 0, "Undefined"),
      TextRun(Font(FALSE, Px(7), Px(7), Px(2)),
              <<[position |-> <<0, Px(9)>>, text |-> "old"]>>,
              Px(4), "AtMost", -Px(1), "Exactly"),
      TextRun(Font(TRUE, Px(2), Px(1), -Px(1)),
              <<[position |-> <<0, 0>>, text |-> "old"], [position |-> <<0, Px(1)>>, text |-> ""]>>,
              -Px(2), "Exactly", Px(1), "AtMost") }

\* YogaMeasureFunc on a text node, up to its loop.
MeasureStart ==
    /\ meas.pc = "idle"
    /\ meas' = [meas EXCEPT !.pc = "running", !.m = MeasureLoopStart]
    /\ UNCHANGED <<children, kind, computed, box, offset, scrollable_overflow, scroll_offset,
                   lines, pc, root, nodes, config, calls, written, regenerated, context_of,
                   generated, previous_lines, text_env, clamps, gen, ynode, built_box,
                   callback, released, write_log, fonts>>

\* One iteration of the text loop of YogaMeasureFunc, and its loop condition.
MeasureStep ==
    /\ meas.pc = "running"
    /\ LET m == MeasureIter(meas.m, GenerateLine(meas.service, meas.m.it))
       IN meas' = [meas EXCEPT !.m = m,
                               !.pc = IF m.done \/ ~MeasureWithinIterations(m.it)
                                      THEN "looped" ELSE "running"]
    /\ UNCHANGED <<children, kind, computed, box, offset, scrollable_overflow, scroll_offset,
                   lines, pc, root, nodes, config, calls, written, regenerated, context_of,
                   generated, previous_lines, text_env, clamps, gen, ynode, built_box,
                   callback, released, write_log, fonts>>

\* YogaMeasureFunc on a text node, from the end of its loop to its return.
MeasureReturn ==
    /\ meas.pc = "looped"
    /\ meas' = [meas EXCEPT !.pc = "done",
                            !.result = MeasureText(meas.m, meas.run.font,
                                                   meas.run.width, meas.run.width_mode,
                                                   meas.run.height, meas.run.height_mode)]
    /\ UNCHANGED <<children, kind, computed, box, offset, scrollable_overflow, scroll_offset,
                   lines, pc, root, nodes, config, calls, written, regenerated, context_of,
                   generated, previous_lines, text_env, clamps, gen, ynode, built_box,
                   callback, released, write_log, fonts>>

\* GenerateTextLines up to its loop: the apply phase comes after the solver has
\* measured the node.
GenStart ==
    /\ meas.pc = "done"
    /\ gen.pc = "idle"
    /\ lines' = [lines EXCEPT ![1] = ClearLines(@)]
    /\ gen' = [gen EXCEPT !.pc = "running", !.g = GenLoopStart]
    /\ UNCHANGED <<children, kind, computed, box, offset, scrollable_overflow, scroll_offset,
                   pc, root, nodes, config, calls, written, regenerated, context_of,
                   generated, previous_lines, text_env, clamps, meas, ynode, built_box,
                   callback, released, write_log, fonts>>

\* One iteration of the loop of GenerateTextLines, and its loop condition.
GenStep ==
    /\ gen.pc = "running"
    /\ \E r \in {GenerateTextLinesIter(gen.g, lines[1], GenerateLine(gen.service, gen.g.it),
                                       gen.font)} :
          /\ lines' = [lines EXCEPT ![1] = r.lines]
          /\ gen' = [gen EXCEPT !.g = r.g,
                                !.pc = IF r.g.done \/ ~WithinIterations(r.g.it)
                                       THEN "done" ELSE "running"]
    /\ UNCHANGED <<children, kind, computed, box, offset, scrollable_overflow, scroll_offset,
                   pc, root, nodes, config, calls, written, regenerated, context_of,
                   generated, previous_lines, text_env, clamps, meas, ynode, built_box,
                   callback, released, write_log, fonts>>

NoResult == [num_lines |-> 0, width |-> 0, height |-> 0]

InitLines ==
    /\ children = [e \in Elem |-> <<>>]
    /\ kind = [e \in Elem |-> IF e = 1 THEN "text" ELSE "plain"]
    /\ computed = [e \in Elem |-> DefaultStyle]
    /\ scroll_offset = [e \in Elem |-> <<0, 0>>]
    /\ InitElements
    /\ \E run \in TextRuns, service \in Services :
          /\ lines = [e \in Elem |-> IF e = 1 THEN run.stale ELSE <<>>]
          /\ meas = [pc |-> "idle", run |-> run, service |-> service,
                     m |-> MeasureLoopStart, result |-> NoResult]
          /\ gen = [pc |-> "idle", font |-> run.font, service |-> service, g |-> GenLoopStart]
    /\ ynode = NoStyleRun
    /\ built_box = NoStyleRun
    /\ callback = LoopOff
    /\ fonts = LoopOff

NextLines == MeasureStart \/ MeasureStep \/ MeasureReturn \/ GenStart \/ GenStep

SpecLines == InitLines /\ [][NextLines]_vars

\* ------------------------------- the style adapter and BuildBox on one style
\* SpecStyle applies ApplyYogaStyleToNode to a fresh node for element 1, and
\* BuildBox to element 1 or to a null element, for computed values drawn from
\* these.  Lengths are even, so that half of the remaining space is a whole number.
AdapterStyles ==
    {[DefaultStyle EXCEPT !.overflow_x = x[1], !.overflow_y = x[2],
                          !.display = x[3], !.position = x[4]] :
        x \in OverflowValues \X OverflowValues \X {"Block", "None"} \X {"Static", "Fixed"}}

MaxDimensionSamples ==
    {Length(4), Length(large - 2), Length(large), Length(large + 2), FLT_MAX, Percentage(50)}

VerticalSamples ==
    {<<Auto, Length(0), FLT_MAX>>,
     <<Length(10), Length(0), Length(large)>>,
     <<Percentage(50), Length(6), Length(4)>>}

MaxDimensionStyles ==
    {[DefaultStyle EXCEPT !.width = x[1], !.max_width = x[2],
                          !.height = x[3][1], !.min_height = x[3][2], !.max_height = x[3][3]] :
        x \in {Auto, Length(10), Percentage(50), Length(large + 6)}
              \X MaxDimensionSamples \X VerticalSamples}

\* (The last has a negative margin, wider than the element.)
MarginSamples ==
    {<<Length(2), Length(4)>>, <<Auto, Auto>>, <<Auto, Length(4)>>, <<Length(2), Auto>>,
     <<Length(-60), Auto>>}

EdgeStyles ==
    {DefaultStyle,
     [DefaultStyle EXCEPT !.padding_top = Length(2), !.padding_right = Percentage(50),
                          !.padding_left = Length(2), !.border_left_width = 2,
                          !.border_bottom_width = 4, !.margin_top = Auto,
                          !.margin_bottom = Percentage(50)]}

BoxStyles ==
    {[x[1] EXCEPT !.width = x[2], !.height = x[2], !.min_width = x[3],
                  !.box_sizing = x[4], !.margin_left = x[5][1], !.margin_right = x[5][2],
                  !.max_width = x[6]] :
        x \in EdgeStyles \X {Auto, Length(10), Percentage(50)} \X {Length(0), Length(6)}
              \X {"ContentBox", "BorderBox"} \X MarginSamples \X {FLT_MAX, Length(4)}}

StyleSamples == AdapterStyles \cup MaxDimensionStyles \cup BoxStyles

\* The containing blocks BuildBox is called with: a known one, and an unknown
\* (negative) one.
BoxContainingBlocks == {<<40, 20>>, <<-2, -2>>}

\* ApplyYogaStyleToNode(node, element) on the fresh node of element 1.
StyleAdapter ==
    /\ ynode.pc = "new"
    /\ ynode' = [pc |-> "styled", style |-> ApplyYogaStyleToNode(ynode.style, computed[1])]
    /\ UNCHANGED <<children, kind, computed, box, offset, scrollable_overflow, scroll_offset,
                   lines, pc, root, nodes, config, calls, written, regenerated, context_of,
                   generated, previous_lines, text_env, clamps, gen, meas, built_box, callback,
                   released, write_log, fonts>>

\* LayoutDetails::BuildBox(box, containing_block, element, box_mode) for element 1 or
\* for a null element.
BuildBoxCall ==
    /\ built_box.pc \in {"idle", "built"}
    /\ \E containing_block \in BoxContainingBlocks, box_mode \in BuildBoxModes,
          element \in {Null, 1} :
          built_box' = [pc |-> "built", containing_block |-> containing_block,
                        element |-> element, box_mode |-> box_mode,
                        box |-> BuildBox(containing_block,
                                         IF element = Null THEN NullElement
                                         ELSE computed[element],
                                         box_mode)]
    /\ UNCHANGED <<children, kind, computed, box, offset, scrollable_overflow, scroll_offset,
                   lines, pc, root, nodes, config, calls, written, regenerated, context_of,
                   generated, previous_lines, text_env, clamps, gen, meas, ynode, callback,
                   released, write_log, fonts>>

InitStyle ==
    /\ children = [e \in Elem |-> <<>>]
    /\ kind = [e \in Elem |-> "plain"]
    /\ \E c \in StyleSamples : computed = [e \in Elem |-> IF e = 1 THEN c ELSE DefaultStyle]
    /\ scroll_offset = [e \in Elem |-> <<0, 0>>]
    /\ lines = [e \in Elem |-> <<>>]
    /\ InitElements
    /\ gen = LoopOff
    /\ meas = LoopOff
    /\ ynode = [pc |-> "new", style |-> NewNode.style]
    /\ built_box = [pc |-> "idle", containing_block |-> <<0, 0>>, element |-> Null,
                    box_mode |-> "Block", box |-> EmptyBox]
    /\ callback = LoopOff
    /\ fonts = LoopOff

NextStyle == StyleAdapter \/ BuildBoxCall

SpecStyle == InitStyle /\ [][NextStyle]_vars

\* ------------------------------------ the solver's callbacks on one node
\* SpecCallbacks calls YogaMeasureFunc and YogaBaselineFunc on the node of one
\* element, with any arguments the solver may pass, and the apply phase's
\* GenerateTextLines on it if it is a text element.  All lengths are even numbers of
\* half pixels and the ratios divide them, so every quotient in the callbacks is whole.
MeasureModes == {"Undefined", "Exactly", "AtMost"}
MeasureWidths == {-Px(2), Px(4), Px(50), Px(150)}
MeasureHeights == {-Px(2), Px(4), Px(30)}

\* Fonts: a signed descent and an odd leading; no font face; a negative line height;
\* an ascent below the descent's magnitude; no leading.
CallbackFonts ==
    { Font(TRUE, Px(3), -Px(1), Px(5)),
      Font(FALSE, Px(7), Px(7), Px(2)),
      Font(TRUE, Px(2), Px(1), -Px(1)),
      Font(TRUE, -Px(4), Px(1), Px(6)),
      Font(TRUE, Px(4), Px(2), Px(6)) }

\* Texts: two lines; empty; a line and then a request that consumes nothing; three
\* lines, the widest first.
CallbackServices ==
    { Service(<<Consume, ConsumeEnd>>, EndOfText),
      Service(<<>>, EndOfText),
      Service(<<Consume, Stall>>, EndOfText),
      Service(<<Response("wide", 4, Px(9), FALSE), Consume, Consume>>, Stall) }

\* Intrinsic dimensions: 100 x 50 px at ratio 2; at ratio 1/2; with a ratio of 0 and
\* a negative one; a negative width; none.
CallbackIntrinsics ==
    { Intrinsic(TRUE, Px(100), Px(50), 2, 1),
      Intrinsic(TRUE, Px(20), Px(40), 1, 2),
      Intrinsic(TRUE, Px(100), Px(50), 0, 1),
      Intrinsic(TRUE, Px(100), Px(50), -2, 1),
      Intrinsic(TRUE, -Px(4), Px(10), 2, 1),
      NoIntrinsic }

\* The element behind the node's context pointer.
CallbackElement(k, font, service, intrinsic) ==
    [kind |-> k, font |-> font, service |-> service, intrinsic |-> intrinsic]

CallbackElements ==
    {CallbackElement("null", NoFont, Service(<<>>, EndOfText), NoIntrinsic)}
    \cup {CallbackElement("text", x[1], x[2], NoIntrinsic) :
             x \in CallbackFonts \X CallbackServices}
    \cup {CallbackElement("replaced", NoFont, Service(<<>>, EndOfText), i) :
             i \in CallbackIntrinsics}

NoArgs == [width |-> 0, width_mode |-> "Undefined", height |-> 0, height_mode |-> "Undefined"]
NoSize == [width |-> 0, height |-> 0]

\* The solver calls YogaMeasureFunc on the node.
MeasureCall ==
    /\ callback.pc # "off"
    /\ \E width \in MeasureWidths, width_mode \in MeasureModes,
          height \in MeasureHeights, height_mode \in MeasureModes :
          callback' = [callback EXCEPT
                          !.pc = "measured",
                          !.args = [width |-> width, width_mode |-> width_mode,
                                    height |-> height, height_mode |-> height_mode],
                          !.size = YogaMeasureFunc(callback.element, width, width_mode,
                                                   height, height_mode),
                          !.baseline = 0]
    /\ UNCHANGED <<children, kind, computed, box, offset, scrollable_overflow, scroll_offset,
                   lines, pc, root, nodes, config, calls, written, regenerated, context_of,
                   generated, previous_lines, text_env, clamps, gen, meas, ynode, built_box,
                   released, write_log, fonts>>

\* The solver calls YogaBaselineFunc on the node: only the node of a text element
\* has the baseline callback.
BaselineCall ==
    /\ callback.pc # "off"
    /\ callback.element.kind = "text"
    /\ \E width \in MeasureWidths, height \in MeasureHeights :
          callback' = [callback EXCEPT
                          !.pc = "baseline",
                          !.args = [NoArgs EXCEPT !.width = width, !.height = height],
                          !.size = NoSize,
                          !.baseline = YogaBaselineFunc(callback.element, width, height)]
    /\ UNCHANGED <<children, kind, computed, box, offset, scrollable_overflow, scroll_offset,
                   lines, pc, root, nodes, config, calls, written, regenerated, context_of,
                   generated, previous_lines, text_env, clamps, gen, meas, ynode, built_box,
                   released, write_log, fonts>>

\* The apply phase calls GenerateTextLines on the element, which is element 1.
TextLinesCall ==
    /\ callback.pc # "off"
    /\ callback.element.kind = "text"
    /\ \E available_width \in MeasureWidths :
          lines' = [lines EXCEPT ![1] = GenerateTextLines(@, available_width,
                                                          callback.element.font,
                                                          callback.element.service)]
    /\ UNCHANGED <<children, kind, computed, box, offset, scrollable_overflow, scroll_offset,
                   pc, root, nodes, config, calls, written, regenerated, context_of,
                   generated, previous_lines, text_env, clamps, gen, meas, ynode, built_box,
                   callback, released, write_log, fonts>>

InitCallbacks ==
    /\ children = [e \in Elem |-> <<>>]
    /\ computed = [e \in Elem |-> DefaultStyle]
    /\ scroll_offset = [e \in Elem |-> <<0, 0>>]
    /\ lines = [e \in Elem |-> <<>>]
    /\ InitElements
    /\ gen = LoopOff
    /\ meas = LoopOff
    /\ ynode = NoStyleRun
    /\ built_box = NoStyleRun
    /\ fonts = LoopOff
    /\ \E element \in CallbackElements :
          /\ kind = [e \in Elem |-> IF e = 1 /\ element.kind # "null"
                                    THEN element.kind ELSE "plain"]
          /\ callback = [pc |-> "idle", element |-> element, args |-> NoArgs,
                         size |-> NoSize, baseline |-> 0]

NextCallbacks == MeasureCall \/ BaselineCall \/ TextLinesCall

SpecCallbacks == InitCallbacks /\ [][NextCallbacks]_vars

\* ------------------------------------- a font family and its handle caches
\* SpecFace requests handles from one FontFace and releases them; SpecFonts builds a
\* FontFamily with AddFace, requests handles from it and releases its resources.
\* Faces a family holds at most.
MaxFaces == 2
\* FontFaceHandleDefault::Initialize calls on the handles of one face, at most.
MaxInitialize == 2
\* FontFaceHandleDefault::Initialize calls on the handles of a family, at most.
MaxFamilyInitialize == 1
\* <limits.h>
INT_MAX == 2147483647

FontStyles == {"Normal", "Italic"}
\* Style::FontWeight of a face, and the weights requested: 550 is as far from 400 as
\* from 700.
FaceWeights == {400, 700}
RequestWeights == {400, 550, 700}
\* What FreeType::LoadFace gave the face: no face, or a face.
FreeTypeFaces == {Null, 1}
\* Handle sizes requested: negative, zero, an ordinary size.
HandleSizes == {-1, 0, 12}
\* Handle sizes requested from the family.
FamilySizes == {12}
\* Synthetic weight deltas passed to FontFace::GetHandle.
HandleDeltas == {-300, 0, 300}

\* ---- unsigned integers as 16-bit words, most significant first
Word == 65536
RECURSIVE BitOr(_, _)
\* a | b on words
BitOr(a, b) ==
    IF a = 0 THEN b
    ELSE IF b = 0 THEN a
    ELSE 2 * BitOr(a \div 2, b \div 2) + Max(a % 2, b % 2)
\* (uint32_t)v of an int v
ToUint32(v) == <<(v \div Word) % Word, v % Word>>
\* a | b on uint64_t
BitOr64(a, b) == [w \in 1..4 |-> BitOr(a[w], b[w])]

\* uint64_t(u_size) << 32 has u_size in its upper two words, uint64_t(u_delta) has
\* u_delta in its lower two.
MakeHandleKey(size, synthetic_weight_delta) ==
    LET u_size == ToUint32(Max(size, 0))
        u_delta == ToUint32(Max(synthetic_weight_delta, 0))
    IN BitOr64(<<u_size[1], u_size[2], 0, 0>>, <<0, 0, u_delta[1], u_delta[2]>>)

\* ---- FontFace
\* A FontFaceHandleDefault* is modelled by what it points to: nothing, or a handle
\* object and the arguments it was initialised with.  Two handles a face owns at one
\* time never have the same arguments, so equal values are the same object.
Nullptr == [object |-> FALSE, size |-> 0, synthetic_weight_delta |-> 0]
Handle(size, synthetic_weight_delta) ==
    [object |-> TRUE, size |-> size, synthetic_weight_delta |-> synthetic_weight_delta]

NoHandles == [key \in {} |-> Nullptr]
\* FontFace::FontFace
FontFace(face, style, weight) ==
    [style |-> style, weight |-> weight, face |-> face, handles |-> NoHandles]

\* handles[key] = value
Store(handles, key, value) ==
    [k \in DOMAIN handles \cup {key} |-> IF k = key THEN value ELSE handles[k]]

ForgetFailure(handles, key) == handles
\* handles[key] = nullptr, after a failed Initialize
RememberFailure(handles, key) == Store(handles, key, Nullptr)

\* FontFace::GetHandle on the face `this`; `initialize` is what
\* FontFaceHandleDefault::Initialize returns if it is called.  The outcome: the face
\* afterwards, the pointer returned, the key, whether the key was found in the cache,
\* and the handles Initialize was called on (one or none).
GetHandle(this, size, load_default_glyphs, synthetic_weight_delta, initialize) ==
    LET delta == Max(synthetic_weight_delta, 0)
        key == MakeHandleKey(size, delta)
        handle == Handle(size, delta)
    IN IF key \in DOMAIN this.handles
       THEN [this |-> this, result |-> this.handles[key], key |-> key,
             found |-> TRUE, initialized |-> <<>>]
       ELSE IF this.face = Null
       THEN [this |-> this, result |-> Nullptr, key |-> key,
             found |-> FALSE, initialized |-> <<>>]
       ELSE IF ~initialize
       THEN [this |-> [this EXCEPT !.handles = RememberFailure(@, key)],
             result |-> Nullptr, key |-> key,
             found |-> FALSE, initialized |-> <<handle>>]
       ELSE [this |-> [this EXCEPT !.handles = Store(@, key, handle)],
             result |-> handle, key |-> key,
             found |-> FALSE, initialized |-> <<handle>>]

\* FontFace::ReleaseFontResources
FaceReleaseFontResources(this) == [this EXCEPT !.handles = NoHandles]

\* ---- FontFamily::GetFaceHandle
CloserWeightOrEqual(dist, best_weight_dist) == dist <= best_weight_dist
\* dist < best_weight_dist
CloserWeight(dist, best_weight_dist) == dist < best_weight_dist

RECURSIVE StyleMatchLoop(_, _, _, _, _, _)
\* The first loop, from index i on; the face is given by its index, nullptr by Null.
StyleMatchLoop(font_faces, style, weight, i, matching_face, best_weight_dist) ==
    IF i > Len(font_faces) THEN matching_face
    ELSE LET face == font_faces[i]
             dist == Abs(face.weight - weight)
         IN IF face.style # style
            THEN StyleMatchLoop(font_faces, style, weight, i + 1, matching_face,
                                best_weight_dist)
            ELSE IF dist = 0 THEN i
            ELSE IF CloserWeight(dist, best_weight_dist)
            THEN StyleMatchLoop(font_faces, style, weight, i + 1, i, dist)
            ELSE StyleMatchLoop(font_faces, style, weight, i + 1, matching_face,
                                best_weight_dist)

RECURSIVE FallbackLoop(_, _, _, _, _, _, _)
\* The second loop, from index i on.
FallbackLoop(font_faces, style, weight, i, matching_face, best_style_dist, best_weight_dist) ==
    IF i > Len(font_faces) THEN matching_face
    ELSE LET face == font_faces[i]
             style_dist == IF face.style = style THEN 0 ELSE 1
             weight_dist == Abs(face.weight - weight)
         IN IF style_dist < best_style_dist
               \/ (style_dist = best_style_dist
                   /\ CloserWeight(weight_dist, best_weight_dist))
            THEN FallbackLoop(font_faces, style, weight, i + 1, i, style_dist, weight_dist)
            ELSE FallbackLoop(font_faces, style, weight, i + 1, matching_face,
                              best_style_dist, best_weight_dist)

\* The face GetFaceHandle settles on, by index; Null if it returns for lack of one.
MatchingFace(font_faces, style, weight) ==
    LET styled == StyleMatchLoop(font_faces, style, weight, 1, Null, INT_MAX)
    IN IF styled # Null THEN styled
       ELSE FallbackLoop(font_faces, style, weight, 1, Null, INT_MAX, INT_MAX)

WeightDifference(weight, face_weight) == weight - face_weight
\* const int weight_delta
WeightDelta(weight, face_weight) == Max(weight - face_weight, 0)

\* The arguments of AddFace: a loaded face of every style and weight, and one face
\* FreeType did not load.
AddedFaces == ({1} \X FontStyles \X FaceWeights) \cup {<<Null, "Normal", 400>>}

\* ---- the family, the last request and what the requests so far have done
NoRequest ==
    [op |-> "none", face |-> Null, style |-> "Normal", weight |-> 0, size |-> 0,
     synthetic_weight_delta |-> 0, result |-> Nullptr, key |-> <<0, 0, 0, 0>>,
     found |-> FALSE, initialized |-> <<>>, after_release |-> FALSE]

\* Per face, since it was added or last released: the key-filling request of each
\* cache entry, what each (size, delta) was first answered with, and how often
\* Initialize ran for it.
NoHistory ==
    [filled_by |-> [key \in {} |-> <<0, 0>>], first |-> [p \in {} |-> Nullptr],
     attempts |-> [p \in {} |-> 0], released |-> FALSE]

\* The history of a face after `got == GetHandle(...)` answered a request.
Recorded(history, size, synthetic_weight_delta, got) ==
    LET p == <<size, Max(synthetic_weight_delta, 0)>>
        n == IF p \in DOMAIN history.attempts THEN history.attempts[p] ELSE 0
    IN [filled_by |-> IF got.found \/ got.key \notin DOMAIN got.this.handles
                      THEN history.filled_by
                      ELSE Store(history.filled_by, got.key, p),
        first |-> IF p \in DOMAIN history.first THEN history.first
                  ELSE Store(history.first, p, got.result),
        attempts |-> Store(history.attempts, p, n + Len(got.initialized)),
        released |-> FALSE]

\* A request for a handle of face i is answered and recorded.
Answer(op, i, style, weight, size, synthetic_weight_delta, got) ==
    fonts' = [fonts EXCEPT
                 !.font_faces[i] = got.this,
                 !.initialize_calls = @ + Len(got.initialized),
                 !.history[i] = Recorded(@, size, synthetic_weight_delta, got),
                 !.request = [op |-> op, face |-> i, style |-> style, weight |-> weight,
                              size |-> size,
                              synthetic_weight_delta |-> synthetic_weight_delta,
                              result |-> got.result, key |-> got.key,
                              found |-> got.found, initialized |-> got.initialized,
                              after_release |-> fonts.history[i].released]]

\* A request that calls Initialize is made while calls are left.
HandleLeft(got) ==
    \/ got.initialized = <<>>
    \/ fonts.initialize_calls < (IF fonts.pc = "face" THEN MaxInitialize
                                  ELSE MaxFamilyInitialize)

OthersUnchanged ==
    UNCHANGED <<children, kind, computed, box, offset, scrollable_overflow, scroll_offset,
                lines, pc, root, nodes, config, calls, written, regenerated, context_of,
                generated, previous_lines, text_env, clamps, gen, meas, ynode, built_box,
                callback, released, write_log>>

\* FontFamily::AddFace
AddFace ==
    /\ fonts.pc # "off"
    /\ Len(fonts.font_faces) < MaxFaces
    /\ \E added \in AddedFaces :
          fonts' = [fonts EXCEPT
                       !.font_faces = Append(@, FontFace(added[1], added[2], added[3])),
                       !.history = Append(@, NoHistory),
                       !.request = [NoRequest EXCEPT !.op = "AddFace",
                                                     !.face = Len(fonts.font_faces) + 1]]
    /\ OthersUnchanged

\* FontFace::GetHandle, called on a face of the family.
FaceGetHandle ==
    /\ fonts.pc # "off"
    /\ \E i \in 1..Len(fonts.font_faces), size \in HandleSizes,
          load_default_glyphs \in BOOLEAN, synthetic_weight_delta \in HandleDeltas,
          initialize \in BOOLEAN :
          \E got \in {GetHandle(fonts.font_faces[i], size, load_default_glyphs,
                                synthetic_weight_delta, initialize)} :
             /\ HandleLeft(got)
             /\ Answer("GetHandle", i, fonts.font_faces[i].style,
                       fonts.font_faces[i].weight, size, synthetic_weight_delta, got)
    /\ OthersUnchanged

\* FontFamily::GetFaceHandle
GetFaceHandle ==
    /\ fonts.pc # "off"
    /\ \E style \in FontStyles, weight \in RequestWeights, size \in FamilySizes,
          initialize \in BOOLEAN :
          \E matching_face \in {MatchingFace(fonts.font_faces, style, weight)} :
             IF matching_face = Null
             THEN fonts' = [fonts EXCEPT
                               !.request = [NoRequest EXCEPT !.op = "GetFaceHandle",
                                                             !.style = style,
                                                             !.weight = weight,
                                                             !.size = size]]
             ELSE \E weight_delta \in {WeightDelta(weight,
                                                   fonts.font_faces[matching_face].weight)} :
                  \E got \in {GetHandle(fonts.font_faces[matching_face], size, TRUE,
                                        weight_delta, initialize)} :
                     /\ HandleLeft(got)
                     /\ Answer("GetFaceHandle", matching_face, style, weight, size,
                               weight_delta, got)
    /\ OthersUnchanged

\* FontFace::ReleaseFontResources, called on a face of the family.
FaceRelease ==
    /\ fonts.pc # "off"
    /\ \E i \in 1..Len(fonts.font_faces) :
          fonts' = [fonts EXCEPT
                       !.font_faces[i] = FaceReleaseFontResources(@),
                       !.history[i] = [NoHistory EXCEPT !.released = TRUE],
                       !.request = [NoRequest EXCEPT !.op = "ReleaseFontResources",
                                                     !.face = i]]
    /\ OthersUnchanged

\* FontFamily::ReleaseFontResources
FamilyRelease ==
    /\ fonts.pc # "off"
    /\ fonts' = [fonts EXCEPT
                    !.font_faces = [i \in 1..Len(@) |-> FaceReleaseFontResources(@[i])],
                    !.history = [i \in 1..Len(@) |-> [NoHistory EXCEPT !.released = TRUE]],
                    !.request = [NoRequest EXCEPT !.op = "ReleaseFontResources"]]
    /\ OthersUnchanged

\* No layout pass is in progress while fonts are requested.
InitNoLayout ==
    /\ children = [e \in Elem |-> <<>>]
    /\ kind = [e \in Elem |-> "plain"]
    /\ computed = [e \in Elem |-> DefaultStyle]
    /\ scroll_offset = [e \in Elem |-> <<0, 0>>]
    /\ lines = [e \in Elem |-> <<>>]
    /\ InitElements
    /\ gen = LoopOff
    /\ meas = LoopOff
    /\ ynode = NoStyleRun
    /\ built_box = NoStyleRun
    /\ callback = LoopOff

\* SpecFace: one face, with or without a FreeType face behind it, whose handles are
\* requested and released in any order.
InitFace ==
    /\ InitNoLayout
    /\ \E ft_face \in FreeTypeFaces :
          fonts = [pc |-> "face", font_faces |-> <<FontFace(ft_face, "Normal", 400)>>,
                   initialize_calls |-> 0, history |-> <<NoHistory>>,
                   request |-> NoRequest]

NextFace == FaceGetHandle \/ FaceRelease

SpecFace == InitFace /\ [][NextFace]_vars

\* SpecFonts: a family that starts empty, gains faces, and is asked for handles and
\* to release its resources in any order.
InitFonts ==
    /\ InitNoLayout
    /\ fonts = [pc |-> "family", font_faces |-> <<>>, initialize_calls |-> 0,
                history |-> <<>>, request |-> NoRequest]

NextFonts == AddFace \/ GetFaceHandle \/ FamilyRelease

SpecFonts == InitFonts /\ [][NextFonts]_vars

\* ============================================================ properties
\* The non-null elements reachable from `element` through child lists, itself
\* included.
RECURSIVE Subtree(_)
Subtree(element) ==
    {element} \cup UNION {Subtree(children[element][i]) :
                            i \in {j \in 1..Len(children[element]) : children[element][j] # Null}}

\* The non-null child slots of an element, in order.
NonNullChildren(element) == SelectSeq(children[element], LAMBDA c : c # Null)

\* The node ids of the tree under the wrapper node, while the tree is alive.
TreeNodes == 2..Len(nodes)

\* C1.  When the apply phase of FormatElement(root, containing_block) has run, every
\* non-null element reachable from root through child lists, root included, has had
\* its Box and offset written in that pass, and every such text element has had its
\* line list regenerated in that pass -- for every tree shape, null slots included.
C1_EveryReachableElementWritten ==
    pc = "applied" =>
        \A e \in Subtree(root) :
            /\ e \in written
            /\ kind[e] = "text" => e \in regenerated

\* C2.  In every call ApplyLayoutRecursive(element, node, ...) of a pass, node is the
\* node BuildYogaTreeRecursive created for that element: the context of the node is
\* the element, also when the child list of an element has null entries.
C2_AppliedNodeIsOwnNode ==
    pc = "applied" => \A c \in calls : context_of[c[2]] = c[1]

\* C3, as the claim states it.  The node built for an element that is a text element
\* or has intrinsic dimensions has zero child nodes, even when the element reports a
\* child count greater than 0.
C3_MeasuredKindNeverExpanded ==
    pc = "applied" =>
        \A n \in TreeNodes :
            kind[nodes[n].context] \in {"text", "replaced"} => nodes[n].children = <<>>

\* C3, amended.  An element with zero child slots that is a text element or has
\* intrinsic dimensions gets a node with the measure callback and zero child nodes,
\* and no other element gets the measure callback; an element that reports a child
\* count greater than 0 is expanded whatever its kind: the child nodes of its node
\* are the nodes of its non-null child slots, in order.
C3_OnlyChildlessMeasuredKindIsLeaf ==
    pc = "applied" =>
        \A n \in TreeNodes :
            LET e == nodes[n].context IN
            /\ nodes[n].measure <=>
                   (GetNumChildren(e) = 0 /\ kind[e] \in {"text", "replaced"})
            /\ nodes[n].measure => nodes[n].children = <<>>
            /\ Len(nodes[n].children) = Len(NonNullChildren(e))
            /\ \A i \in 1..Len(nodes[n].children) :
                   nodes[nodes[n].children[i]].context = NonNullChildren(e)[i]

\* A pass built the node of a text or replaced element that has children, and the
\* node has child nodes.
C3_Witness ==
    /\ pc = "applied"
    /\ \E n \in TreeNodes :
          /\ kind[nodes[n].context] \in {"text", "replaced"}
          /\ GetNumChildren(nodes[n].context) > 0
          /\ nodes[n].children # <<>>

\* The line list GenerateTextLines has to leave when the service handed it `served`:
\* line k (from 0) at y = baseline offset + k * line height, or the one empty line.
LinesOfPass(served, font) ==
    IF served = <<>>
    THEN << [position |-> <<0, BaselineOffset(font)>>, text |-> ""] >>
    ELSE [k \in 1..Len(served) |->
             [position |-> <<0, BaselineOffset(font) + (k - 1) * Max(0, font.line_height)>>,
              text |-> served[k]]]

\* C6.  After any sequence of passes over the same tree, the line list of each text
\* element holds exactly the lines of the most recent pass, in order, line k at
\* y = baseline offset + k * line height: nothing of an earlier pass remains and
\* lines never accumulate.
C6_LinesAreThoseOfLastPass ==
    \A e \in Elem :
        IF e \in regenerated
        THEN lines[e] = LinesOfPass(generated[e], text_env.font)
        ELSE lines[e] = <<>>

\* A pass regenerated two lines on a text element that held other lines before it.
C6_Witness ==
    /\ pc = "applied"
    /\ \E e \in regenerated :
          /\ previous_lines[e] # <<>>
          /\ previous_lines[e] # lines[e]
          /\ Len(lines[e]) = 2
          /\ lines[e][2].position[2] > lines[e][1].position[2]

\* C7.  For every element a pass writes and whatever the solver returned, the content
\* size in the element's Box is max(0, outer size - padding - border) on each axis,
\* and so never negative.
C7_ContentSizeClamped ==
    pc = "applied" =>
        \A c \in calls :
            LET l == nodes[c[2]].layout
                content == box[c[1]].content
            IN /\ content[1] = Max(0, l.width - (l.padding.left + l.padding.right)
                                              - (l.border.left + l.border.right))
               /\ content[2] = Max(0, l.height - (l.padding.top + l.padding.bottom)
                                               - (l.border.top + l.border.bottom))
               /\ content[1] >= 0
               /\ content[2] >= 0

\* A pass wrote an element whose outer width is smaller than its padding and border,
\* and one whose outer width is negative.
C7_Witness ==
    /\ pc = "applied"
    /\ \E c \in calls :
          LET l == nodes[c[2]].layout
          IN /\ l.width >= 0
             /\ l.width < l.padding.left + l.padding.right + l.border.left + l.border.right
             /\ box[c[1]].content[1] = 0
    /\ \E c \in calls : nodes[c[2]].layout.width < 0 /\ box[c[1]].content[1] = 0

\* C8.  For every element a pass writes, the scrollable overflow size set on it is, on
\* each axis, at least its content size plus both paddings of the axis, whatever its
\* children are.
C8_OverflowCoversPaddingBox ==
    pc = "applied" =>
        \A e \in written :
            /\ scrollable_overflow[e][1] >=
                   box[e].content[1] + box[e].padding.left + box[e].padding.right
            /\ scrollable_overflow[e][2] >=
                   box[e].content[2] + box[e].padding.top + box[e].padding.bottom

\* A pass wrote an element with a child at a negative offset that its padding box
\* covers on that axis, and an element that a child made larger than its padding box.
C8_Witness ==
    /\ pc = "applied"
    /\ \E e \in written : \E c \in written :
          /\ offset[c].parent = e
          /\ offset[c].position[2] < 0
          /\ scrollable_overflow[e][2] = box[e].content[2] + box[e].padding.top + box[e].padding.bottom
    /\ \E e \in written :
          scrollable_overflow[e][1] > box[e].content[1] + box[e].padding.left + box[e].padding.right

\* An answer after which a line loop asks again: it consumed something and did not
\* report the end of the text.
AsksAgain(resp) == resp.line_length > 0 /\ ~resp.reached_end

\* The requests a loop has made, `it` of them, are at most 4096, and none was made
\* after one that consumed nothing or reported the end.
RequestsWithinPolicy(service, it) ==
    /\ it <= 4096
    /\ \A k \in 0..(it - 2) : AsksAgain(GenerateLine(service, k))

\* A loop that has made `it` requests is over when the last of them consumed nothing
\* or reported the end, or when it was request 4096.
LoopIsOver(service, it) ==
    it >= 1 /\ (it = 4096 \/ ~AsksAgain(GenerateLine(service, it - 1)))

\* C4.  Whatever the line-break service answers, the text loop of YogaMeasureFunc and
\* GenerateTextLines make at most 4096 GenerateLine requests, make no request after
\* one that consumed zero characters or one that reported reached_end, and are over
\* right after such a request or after request 4096; GenerateTextLines then leaves at
\* least one line and the measurement counts at least one line.
C4_LineLoopsStop ==
    /\ meas.pc \in {"running", "looped", "done"} =>
          /\ RequestsWithinPolicy(meas.service, meas.m.it)
          /\ LoopIsOver(meas.service, meas.m.it) <=> meas.pc # "running"
          /\ meas.pc = "done" => meas.result.num_lines >= 1
    /\ gen.pc \in {"running", "done"} =>
          /\ RequestsWithinPolicy(gen.service, gen.g.it)
          /\ LoopIsOver(gen.service, gen.g.it) <=> gen.pc = "done"
          /\ gen.pc = "done" => Len(lines[1]) >= 1

\* Against a service that consumes for ever and never reports the end, the measure
\* loop ended with request 4096 and the measurement counted 4096 lines.
C4_Witness ==
    /\ meas.pc = "done"
    /\ meas.m.it = 4096
    /\ meas.result.num_lines = 4096
    /\ \A k \in 0..4095 : AsksAgain(GenerateLine(meas.service, k))

\* C5.  When the first GenerateLine request consumes zero characters,
\* GenerateTextLines leaves exactly one line: the empty string at (0, baseline
\* offset).  An empty line is added in that case only: otherwise the lines are the
\* answers that consumed something, one line each, and nothing else.
C5_EmptyLineOnlyForEmptyText ==
    /\ gen.pc = "running" => Len(lines[1]) = gen.g.line_index
    /\ gen.pc = "done" =>
          IF GenerateLine(gen.service, 0).line_length <= 0
          THEN lines[1] = << [position |-> <<0, BaselineOffset(gen.font)>>, text |-> ""] >>
          ELSE /\ Len(lines[1]) = gen.g.line_index
               /\ \A k \in 1..Len(lines[1]) :
                     /\ GenerateLine(gen.service, k - 1).line_length > 0
                     /\ lines[1][k].text = GenerateLine(gen.service, k - 1).line

\* GenerateTextLines ran on an element that held lines, the first request consumed
\* nothing while the service handed back a string: one empty line is left.
C5_Witness ==
    /\ gen.pc = "done"
    /\ meas.run.stale # <<>>
    /\ GenerateLine(gen.service, 0).line_length <= 0
    /\ GenerateLine(gen.service, 0).line # ""
    /\ Len(lines[1]) = 1
    /\ lines[1][1].text = ""

\* C9.  For every pair (overflow_x, overflow_y), the overflow the style adapter sets
\* on the node is hidden if either axis is hidden, otherwise scroll if either axis is
\* scroll or auto, otherwise visible; it is visible only when both axes are visible,
\* and it is the same with the two axes exchanged.
C9_OverflowCollapse ==
    ynode.pc = "styled" =>
        LET x == computed[1].overflow_x
            y == computed[1].overflow_y
            set == ynode.style.overflow
            exchanged == [computed[1] EXCEPT !.overflow_x = y, !.overflow_y = x]
        IN /\ ("Hidden" \in {x, y}) => set = "YGOverflowHidden"
           /\ ("Hidden" \notin {x, y} /\ {x, y} \cap {"Scroll", "Auto"} # {}) =>
                  set = "YGOverflowScroll"
           /\ ("Hidden" \notin {x, y} /\ {x, y} \cap {"Scroll", "Auto"} = {}) =>
                  set = "YGOverflowVisible"
           /\ set = "YGOverflowVisible" <=> (x = "Visible" /\ y = "Visible")
           /\ set = ApplyYogaStyleToNode(NewNode.style, exchanged).overflow

\* The adapter styled a node for overflow_x visible, overflow_y auto: scroll.
C9_Witness ==
    /\ ynode.pc = "styled"
    /\ computed[1].overflow_x = "Visible"
    /\ computed[1].overflow_y = "Auto"
    /\ ynode.style.overflow = "YGOverflowScroll"

\* What the claim says of one max dimension in the style adapter: at or above the
\* threshold nothing is set, below it the length is set.
MaxDimensionForwardedBelowThreshold(value, set) ==
    /\ (value.type = "Length" /\ value.value >= large) => set = YGUndefined
    /\ (value.type = "Length" /\ value.value < large) => set = YGPoint(value.value)

\* What the claim says of one max dimension in BuildBox: a definite content size is
\* what it is without the max dimension when that is at or above the threshold, and
\* is capped by it when it is below.
MaxDimensionCapsBelowThreshold(max_value, content, content_without) ==
    /\ max_value >= large => content = content_without
    /\ (max_value >= 0 /\ max_value < large /\ content_without >= 0) =>
           content = Min(content_without, max_value)

\* C10.  A max-width or max-height at or above the threshold 1.0e20 is never applied:
\* SetYogaMaxDimension sets no max dimension on the node for it, and BuildBox leaves a
\* definite content size unaffected by it; a value below the threshold is applied.
C10_SentinelMaxNeverApplied ==
    /\ ynode.pc = "styled" =>
          /\ MaxDimensionForwardedBelowThreshold(computed[1].max_width, ynode.style.max_width)
          /\ MaxDimensionForwardedBelowThreshold(computed[1].max_height, ynode.style.max_height)
    /\ (built_box.pc = "built" /\ built_box.element # Null) =>
          LET c == computed[1]
              cb == built_box.containing_block
              without == BuildBox(cb, [c EXCEPT !.max_width = FLT_MAX, !.max_height = FLT_MAX],
                                  built_box.box_mode)
          IN /\ MaxDimensionCapsBelowThreshold(ResolveValue(c.max_width, cb[1]),
                                               built_box.box.content[1], without.content[1])
             /\ MaxDimensionCapsBelowThreshold(ResolveValue(c.max_height, cb[2]),
                                               built_box.box.content[2], without.content[2])

\* ---- C11: YogaMeasureFunc on a replaced element.  Starting from the intrinsic
\* size, an axis is max(0, constraint) in exact mode, min(intrinsic, max(0,
\* constraint)) in at-most mode and intrinsic when unconstrained; if the ratio is > 0
\* and exactly one axis is constrained, the other axis is recomputed from it (height
\* = width / ratio, width = height x ratio), and otherwise not; both results are
\* floored at 0.
ConstrainedAxis(intrinsic_value, mode, constraint) ==
    IF mode = "Exactly" THEN Max(0, constraint)
    ELSE IF mode = "AtMost" THEN Min(intrinsic_value, Max(0, constraint))
    ELSE intrinsic_value

ReplacedMeasured ==
    /\ callback.pc = "measured"
    /\ callback.element.kind = "replaced"
    /\ callback.element.intrinsic.has

C11_ReplacedMeasurement ==
    ReplacedMeasured =>
        LET i == callback.element.intrinsic
            a == callback.args
            w == ConstrainedAxis(i.dimensions[1], a.width_mode, a.width)
            h == ConstrainedAxis(i.dimensions[2], a.height_mode, a.height)
            width_constrained == a.width_mode \in {"Exactly", "AtMost"}
            height_constrained == a.height_mode \in {"Exactly", "AtMost"}
            ratio_applies == i.ratio.num > 0 /\ (width_constrained # height_constrained)
        IN /\ ~ratio_applies => callback.size = [width |-> Max(0, w), height |-> Max(0, h)]
           /\ ratio_applies /\ width_constrained =>
                 /\ callback.size.width = Max(0, w)
                 /\ callback.size.height * i.ratio.num = Max(0, w) * i.ratio.den
           /\ ratio_applies /\ height_constrained =>
                 /\ callback.size.height = Max(0, h)
                 /\ callback.size.width * i.ratio.den = Max(0, h) * i.ratio.num

\* Intrinsic (200, 100), ratio 2, width exactly 100, height unconstrained: height 50.
C11_Witness ==
    /\ ReplacedMeasured
    /\ callback.element.intrinsic = Intrinsic(TRUE, 200, 100, 2, 1)
    /\ callback.args.width = 100 /\ callback.args.width_mode = "Exactly"
    /\ callback.args.height_mode = "Undefined"
    /\ callback.size = [width |-> 100, height |-> 50]
\* ---- C12: YogaMeasureFunc on a text element.  The natural size is (the maximum
\* line width over the lines produced, line count x (ascent + |descent|)) with a line
\* count of at least 1 and missing font metrics read as zero; each returned axis is
\* the constraint floored at 0 in exact mode, the minimum of the natural value and
\* the floored constraint in at-most mode, the natural value when unconstrained; and
\* both returned dimensions are >= 0, whatever the modes, constraints and metrics.
\* The widths of the lines the service produces for one run of the loop.
RECURSIVE ProducedWidths(_, _)
ProducedWidths(service, it) ==
    LET resp == GenerateLine(service, it)
    IN IF it >= max_iterations \/ resp.line_length <= 0 THEN <<>>
       ELSE IF resp.reached_end THEN <<resp.line_width>>
       ELSE <<resp.line_width>> \o ProducedWidths(service, it + 1)

NaturalTextSize(element) ==
    LET widths == ProducedWidths(element.service, 0)
        line_count == IF Len(widths) = 0 THEN 1 ELSE Len(widths)
        ascent == IF element.font.font_face THEN element.font.ascent ELSE 0
        descent == IF element.font.font_face THEN element.font.descent ELSE 0
        widest == IF Len(widths) = 0 THEN 0
                  ELSE CHOOSE w \in {widths[k] : k \in 1..Len(widths)} :
                          \A k \in 1..Len(widths) : widths[k] <= w
    IN [width |-> widest, height |-> line_count * (ascent + Abs(descent))]

TextMeasured == callback.pc = "measured" /\ callback.element.kind = "text"

C12_TextMeasurement ==
    TextMeasured =>
        LET natural == NaturalTextSize(callback.element)
            a == callback.args
        IN /\ callback.size.width =
                 Max(0, ConstrainedAxis(natural.width, a.width_mode, a.width))
           /\ callback.size.height =
                 Max(0, ConstrainedAxis(natural.height, a.height_mode, a.height))
           /\ callback.size.width >= 0
           /\ callback.size.height >= 0

\* Empty text in a font of ascent 3 px and descent -1 px, unconstrained: one line
\* high, 4 px.
C12_Witness ==
    /\ TextMeasured
    /\ callback.element.font = Font(TRUE, Px(3), -Px(1), Px(5))
    /\ callback.element.service = Service(<<>>, EndOfText)
    /\ callback.args.width_mode = "AtMost"
    /\ callback.args.height_mode = "Undefined"
    /\ callback.size = [width |-> 0, height |-> Px(4)]
\* ---- C13: BuildBox, horizontal auto margins.  An auto left/right margin is 0
\* unless the mode is Block, the clamped content width is definite and remaining =
\* containing width - content width - horizontal padding - horizontal border -
\* non-auto horizontal margins is > 0; then two auto margins get remaining/2 each and
\* a single one gets all of it, so that margins, border, padding and content width
\* add up to the containing width; a non-auto margin is never changed by this.
\* `known` is what else the distribution is required to depend on.
BoxBuilt == built_box.pc = "built" /\ built_box.element = 1

AutoMarginsAsStated(known) ==
    LET c == computed[1]
        b == built_box.box
        cb_width == built_box.containing_block[1]
        left_auto == c.margin_left.type = "Auto"
        right_auto == c.margin_right.type = "Auto"
        left_given == IF left_auto THEN 0 ELSE ResolveValueOr(c.margin_left, cb_width, 0)
        right_given == IF right_auto THEN 0 ELSE ResolveValueOr(c.margin_right, cb_width, 0)
        inner == b.content[1] + b.padding.left + b.padding.right
                 + b.border.left + b.border.right
        remaining == cb_width - inner - left_given - right_given
        distributed == /\ built_box.box_mode = "Block"
                       /\ b.content[1] >= 0
                       /\ remaining > 0
                       /\ known
    IN /\ left_auto /\ ~distributed => b.margin.left = 0
       /\ right_auto /\ ~distributed => b.margin.right = 0
       /\ distributed /\ left_auto /\ right_auto =>
             b.margin.left = b.margin.right /\ b.margin.left + b.margin.right = remaining
       /\ distributed /\ left_auto /\ ~right_auto => b.margin.left = remaining
       /\ distributed /\ right_auto /\ ~left_auto => b.margin.right = remaining
       /\ distributed /\ (left_auto \/ right_auto) =>
             b.margin.left + inner + b.margin.right = cb_width
       /\ ~left_auto /\ built_box.box_mode # "Inline" => b.margin.left = left_given
       /\ ~right_auto /\ built_box.box_mode # "Inline" => b.margin.right = right_given

\* As stated: the distribution depends on nothing else.
C13_AutoMargins == BoxBuilt => AutoMarginsAsStated(TRUE)

\* Amended: the distribution also requires a known (non-negative) containing width.
C13_AutoMarginsWhenWidthKnown ==
    BoxBuilt => AutoMarginsAsStated(built_box.containing_block[1] >= 0)

\* Containing width 40, content width 10, both margins auto, no padding or border:
\* 15 and 15.
C13_Witness ==
    /\ BoxBuilt
    /\ built_box.box_mode = "Block"
    /\ built_box.containing_block[1] = 40
    /\ computed[1].margin_left = Auto /\ computed[1].margin_right = Auto
    /\ built_box.box.content[1] = 10
    /\ built_box.box.padding = NoEdges /\ built_box.box.border = NoEdges
    /\ built_box.box.margin.left = 15 /\ built_box.box.margin.right = 15
\* ---- C14: BuildBox, box sizing.  In Block or UnalignedBlock mode, with box-sizing
\* border-box and a definite specified width W (height H), the content width
\* (height) before min/max clamping is max(0, W - horizontal (vertical) padding -
\* horizontal (vertical) border); with content-box the definite size is stored
\* unchanged; an auto size is never altered by the box-sizing step.
\* The stored content size is the min/max clamp of the size the claim gives.
SizedAsStated(specified, box_sizing, border_padding, min_value, max_value, base_value, stored) ==
    LET definite == ResolveValueOr(specified, base_value, -1)
    IN IF specified.type = "Auto" \/ definite < 0 THEN stored = -1
       ELSE IF box_sizing = "BorderBox"
       THEN stored = ClampToMinMax(Max(0, definite - border_padding),
                                   min_value, max_value, base_value)
       ELSE stored = ClampToMinMax(definite, min_value, max_value, base_value)

C14_BoxSizing ==
    BoxBuilt /\ built_box.box_mode \in {"Block", "UnalignedBlock"} =>
        LET c == computed[1]
            b == built_box.box
        IN /\ SizedAsStated(c.width, c.box_sizing,
                            b.padding.left + b.padding.right + b.border.left + b.border.right,
                            c.min_width, c.max_width, built_box.containing_block[1],
                            b.content[1])
           /\ SizedAsStated(c.height, c.box_sizing,
                            b.padding.top + b.padding.bottom + b.border.top + b.border.bottom,
                            c.min_height, c.max_height, built_box.containing_block[2],
                            b.content[2])

\* border-box, height 10 with 2 of padding and 4 of border: content height 4; width
\* 10 with 24 of padding and border: content width 0, raised to the minimum 6.
C14_Witness ==
    /\ BoxBuilt
    /\ built_box.box_mode = "UnalignedBlock"
    /\ built_box.containing_block = <<40, 20>>
    /\ computed[1].box_sizing = "BorderBox"
    /\ computed[1].width = Length(10) /\ computed[1].height = Length(10)
    /\ computed[1].min_width = Length(6)
    /\ built_box.box.padding = Edges(2, 2, 20, 0)
    /\ built_box.box.border = Edges(2, 0, 0, 4)
    /\ built_box.box.content = <<6, 4>>
\* ---- C15: the layout tree is pass-scoped.  The nodes of a pass are one per element
\* the builder visited plus exactly one wrapper that has no element behind it; they
\* and the solver config are alive, never freed, while the pass applies the results,
\* and the applier uses only them; when the call has returned each of them and the
\* config have been freed exactly once and no node is alive.
C15_TreeIsPassScoped ==
    /\ pc = "applied" =>
          /\ config /\ released.config = 0
          /\ Len(nodes) = Cardinality(Subtree(root)) + 1
          /\ nodes[1].context = Null
          /\ \A e \in Subtree(root) :
                Cardinality({n \in TreeNodes : nodes[n].context = e}) = 1
          /\ \A n \in TreeNodes : nodes[n].context \in Subtree(root)
          /\ DOMAIN released.nodes = 1..Len(nodes)
          /\ \A n \in 1..Len(nodes) : released.nodes[n] = 0
          /\ \A c \in calls : c[2] \in 1..Len(nodes)
    /\ pc = "idle" =>
          /\ nodes = <<>>
          /\ ~config
          /\ root # Null =>
                /\ released.config = 1
                /\ Len(released.nodes) = Cardinality(Subtree(root)) + 1
                /\ \A n \in 1..Len(released.nodes) : released.nodes[n] = 1

\* A pass over a tree of three elements has returned: four nodes were freed.
C15_Witness ==
    /\ pc = "idle"
    /\ root # Null
    /\ Cardinality(Subtree(root)) = 3
    /\ Len(released.nodes) = 4
    /\ nodes = <<>>
\* ---- C16: within one pass the scroll offsets are clamped exactly once, by one
\* recursive clamp started at the root element, after the last Box, offset and
\* scrollable-overflow write of the pass; no scrollable-overflow write of the apply
\* phase clamps a scroll offset (each is issued with clamping disabled).
ClampEvents(log) == {k \in 1..Len(log) : log[k][1] = "clamp"}

ApplyPhaseNeverClamps ==
    pc = "idle" /\ pc' = "applied" =>
        /\ scroll_offset' = scroll_offset
        /\ ClampEvents(write_log') = {}
        /\ \A k \in 1..Len(write_log') :
              write_log'[k][1] = "overflow" => write_log'[k][3] = FALSE
        /\ clamps'.clamping_writes = 0 /\ clamps'.recursive = 0

ClampIsLastAndOnce ==
    pc = "applied" /\ pc' = "idle" =>
        /\ ClampEvents(write_log') = {Len(write_log')}
        /\ write_log'[Len(write_log')] = <<"clamp", root>>
        /\ clamps'.recursive = 1
        /\ box' = box /\ offset' = offset /\ scrollable_overflow' = scrollable_overflow
        /\ \A e \in Elem :
              scroll_offset'[e] =
                  IF e \in Subtree(root)
                  THEN ClampScrollOffset(box[e], scrollable_overflow[e], scroll_offset[e])
                  ELSE scroll_offset[e]

C16_ClampOnceAfterAllWrites == [][ApplyPhaseNeverClamps /\ ClampIsLastAndOnce]_vars

\* A pass has returned: its log ends with the clamp, which moved the scroll offset of
\* the root, after more than three writes.
C16_Witness ==
    /\ pc = "idle"
    /\ root # Null
    /\ Len(write_log) > 3
    /\ write_log[Len(write_log)] = <<"clamp", root>>
    /\ scroll_offset[root] # <<5, 5>>
\* ---- C17: for the same font metrics and line height, the baseline offset at which
\* GenerateTextLines positions the first line is the value YogaBaselineFunc reports
\* to the solver for that text element, and both are ascent + half of max(0, max(0,
\* line height) - max(0, ascent + |descent|)).
C17_BaselinesAgree ==
    callback.pc = "baseline" /\ callback.element.kind = "text" /\ lines[1] # <<>> =>
        LET font == callback.element.font
            metrics == Metrics(font)
            stated == metrics.ascent
                      + Max(0, Max(0, font.line_height)
                               - Max(0, metrics.ascent + Abs(metrics.descent))) \div 2
        IN /\ lines[1][1].position[2] = callback.baseline
           /\ callback.baseline = stated
\* ---- C18: the offsets a pass writes.  The root element's offset is the content
\* position of its parent's Box (or (0,0) without a parent) plus the solved (left,
\* top) of its node, with its parent as offset parent; every other element's offset
\* is exactly the solved (left, top) of its node, with its parent element as offset
\* parent; the Box and offset of an element are written before any of its
\* descendants' and its scrollable overflow after all of its descendants'.
\* The node the builder created for an element, and where a write is in the log.
NodeOf(element) == CHOOSE n \in TreeNodes : nodes[n].context = element
LogIndex(what, element) ==
    CHOOSE k \in 1..Len(write_log) : write_log[k][1] = what /\ write_log[k][2] = element

OffsetsAsStated ==
    \A e \in written :
        LET l == nodes[NodeOf(e)].layout
            parent == GetParentNode(e)
            origin == IF e = root /\ parent # Null
                      THEN BoxGetPosition(box[parent], "Content")
                      ELSE <<0, 0>>
        IN offset[e] = [position |-> <<origin[1] + l.left, origin[2] + l.top>>,
                        parent |-> parent]

WritesInTreeOrder ==
    \A e \in written : \A d \in (Subtree(e) \cap written) \ {e} :
        /\ LogIndex("box", e) < LogIndex("offset", d)
        /\ LogIndex("offset", e) < LogIndex("offset", d)
        /\ LogIndex("box", e) < LogIndex("box", d)
        /\ LogIndex("overflow", d) < LogIndex("overflow", e)
        /\ LogIndex("box", d) < LogIndex("overflow", e)

C18_OffsetsOfThePass == pc = "applied" => OffsetsAsStated /\ WritesInTreeOrder
\* ---- C19: the scrollable-overflow size of an element depends only on its own Box
\* and on the border boxes of the direct children the applier visited: on each axis
\* it is max(content size + both paddings, leading padding + max over those children
\* of (child border-box position relative to this element's content origin + child
\* border-box size)).  Nothing of a grandchild or deeper descendant enters it.
VisitedChildren(element) == {c \in written \ {root} : offset[c].parent = element}

MaxOf(S) == CHOOSE m \in S : \A x \in S : x <= m

OverflowAsStated(element, axis) ==
    LET b == box[element]
        leading == IF axis = 1 THEN b.padding.left ELSE b.padding.top
        trailing == IF axis = 1 THEN b.padding.right ELSE b.padding.bottom
        origin == BoxGetPosition(b, "Content")[axis]
        extent(c) == offset[c].position[axis] + BoxGetPosition(box[c], "Border")[axis]
                     - origin + BoxGetSize(box[c], "Border")[axis]
    IN MaxOf({b.content[axis] + leading + trailing}
             \cup {leading + extent(c) : c \in VisitedChildren(element)})

C19_OverflowFromDirectChildren ==
    pc = "applied" =>
        \A e \in written :
            scrollable_overflow[e] = <<OverflowAsStated(e, 1), OverflowAsStated(e, 2)>>

\* A chain of three elements: the overflow of the first is wider than its padding
\* box because of its child, and the grandchild was laid out too.
C19_Witness ==
    /\ pc = "applied"
    /\ written = {1, 2, 3}
    /\ offset[2].parent = 1 /\ offset[3].parent = 2
    /\ scrollable_overflow[1][1] >
           box[1].content[1] + box[1].padding.left + box[1].padding.right
\* ---- C20: BuildBox stores a negative content width (height) exactly when that
\* dimension is unresolved.  For a non-null element the stored content width is
\* negative if and only if the mode is Inline or the computed width is auto; a
\* definite non-negative width stays non-negative through border-box subtraction and
\* min/max clamping; in Inline mode both content dimensions are negative and both
\* horizontal margins are 0 whatever the styles, while padding, border and vertical
\* margins are resolved as in the other modes.
\* `unresolved(v, base)` is when a computed size counts as unresolved.
EdgesResolvedInEveryMode ==
    LET c == computed[1]
        b == built_box.box
        cb_width == built_box.containing_block[1]
        margin(v) == IF v.type = "Auto" THEN 0 ELSE ResolveValueOr(v, cb_width, 0)
    IN /\ b.padding = Edges(ResolveValueOr(c.padding_left, cb_width, 0),
                            ResolveValueOr(c.padding_top, cb_width, 0),
                            ResolveValueOr(c.padding_right, cb_width, 0),
                            ResolveValueOr(c.padding_bottom, cb_width, 0))
       /\ b.border = Edges(c.border_left_width, c.border_top_width,
                           c.border_right_width, c.border_bottom_width)
       /\ b.margin.top = margin(c.margin_top)
       /\ b.margin.bottom = margin(c.margin_bottom)

NegativeContentAsStated(unresolved(_, _)) ==
    LET c == computed[1]
        b == built_box.box
        inline == built_box.box_mode = "Inline"
    IN /\ b.content[1] < 0 <=> (inline \/ unresolved(c.width, built_box.containing_block[1]))
       /\ b.content[2] < 0 <=> (inline \/ unresolved(c.height, built_box.containing_block[2]))
       /\ inline => b.content[1] < 0 /\ b.content[2] < 0
                    /\ b.margin.left = 0 /\ b.margin.right = 0
       /\ EdgesResolvedInEveryMode

IsAuto(v, base_value) == v.type = "Auto"
IsAutoOrResolvesNegative(v, base_value) == ResolveValueOr(v, base_value, -1) < 0

\* As stated: unresolved means a computed value of auto.
C20_NegativeContentIffAuto == BoxBuilt => NegativeContentAsStated(IsAuto)

\* Amended: unresolved means auto, or a value that resolves negative (a percentage of
\* an unknown, negative, containing-block dimension).
C20_NegativeContentIffUnresolved ==
    BoxBuilt => NegativeContentAsStated(IsAutoOrResolvesNegative)

\* Inline mode on an element of width and height 10 with margins 2 and 4, padding and
\* border: content (-1, -1), horizontal margins 0, the other edges resolved.
C20_Witness ==
    /\ BoxBuilt
    /\ built_box.box_mode = "Inline"
    /\ built_box.containing_block = <<40, 20>>
    /\ computed[1].width = Length(10) /\ computed[1].height = Length(10)
    /\ computed[1].margin_left = Length(2) /\ computed[1].margin_right = Length(4)
    /\ built_box.box.content = <<-1, -1>>
    /\ built_box.box.margin = Edges(0, 0, 0, 20)
    /\ built_box.box.padding = Edges(2, 2, 20, 0)
    /\ built_box.box.border = Edges(2, 0, 0, 4)

\* ---- FontFace handle cache
\* The last request asked face `fonts.request.face` for a handle.
HandleRequested == fonts.request.op \in {"GetHandle", "GetFaceHandle"} /\ fonts.request.face # Null
\* The (size, max(synthetic_weight_delta, 0)) of the last request.
RequestedPair == <<fonts.request.size, Max(fonts.request.synthetic_weight_delta, 0)>>
\* The last request was the first for a handle of its face since the face's release.
FirstAfterRelease == HandleRequested /\ fonts.request.after_release

\* Since the face was added or last released: the request got what the first request
\* with its size and max(delta, 0) got, and Initialize ran at most once for every such
\* pair; a release leaves the cache empty; the first request after a release runs
\* Initialize, if `initialises` says so of the face.
HandleCacheAsStated(initialises(_)) ==
    /\ HandleRequested =>
          LET history == fonts.history[fonts.request.face]
          IN /\ fonts.request.result = history.first[RequestedPair]
             /\ \A p \in DOMAIN history.attempts : history.attempts[p] <= 1
             /\ fonts.request.found => fonts.request.initialized = <<>>
    /\ fonts.request.op = "ReleaseFontResources" =>
          \A i \in 1..Len(fonts.font_faces) :
             (fonts.request.face \in {Null, i}) => fonts.font_faces[i].handles = NoHandles
    /\ FirstAfterRelease =>
          LET this == fonts.font_faces[fonts.request.face]
          IN IF initialises(this)
             THEN /\ ~fonts.request.found
                  /\ fonts.request.initialized # <<>>
                  /\ fonts.request.result \in {Nullptr, fonts.request.initialized[1]}
             ELSE /\ fonts.request.initialized = <<>>
                  /\ fonts.request.result = Nullptr
                  /\ this.handles = NoHandles

AnyFace(this) == TRUE
FaceNotReleased(this) == this.face # Null

\* C21 as stated: requests with the same size and the same max(delta, 0) get the same
\* result between releases, Initialize is attempted at most once per such key (a
\* failure is remembered), a release empties the cache, and the next request for any
\* key initialises a new handle.
C21_HandleCache == HandleCacheAsStated(AnyFace)

\* C21 amended: the same, but the next request after a release initialises a new
\* handle only if the face still has its FreeType face; without it the request
\* returns null, initialises nothing and caches nothing.
C21_HandleCacheOfLiveFace == HandleCacheAsStated(FaceNotReleased)

\* A handle was initialised, the face released, and the same size and delta
\* requested again: a second handle is initialised and returned.
C21_Witness ==
    /\ fonts.pc = "face"
    /\ FirstAfterRelease
    /\ fonts.initialize_calls = 2
    /\ fonts.request.result = Handle(12, 300)
    /\ fonts.request.initialized = <<Handle(12, 300)>>
    /\ fonts.font_faces[1].handles = Store(NoHandles, MakeHandleKey(12, 300), Handle(12, 300))

\* ---- the cache key
\* int values the key is packed from: the ends of the range, both sides of zero and
\* of a word boundary.
KeySizes == {-INT_MAX - 1, -1, 0, 1, 12, 65535, 65536, INT_MAX}
KeyDeltas == {-INT_MAX - 1, -300, 0, 1, 300, 65536, INT_MAX}

\* The key of the last request is the key of no other (size, max(delta, 0)) pair.
KeyOfRequestIsItsOwn ==
    HandleRequested =>
       \A s \in KeySizes, d \in KeyDeltas :
          MakeHandleKey(s, d) = fonts.request.key => <<s, Max(d, 0)>> = RequestedPair

\* A request served from the cache has the size and max(delta, 0) of the request that
\* filled the entry.
ServedForOwnPair ==
    HandleRequested /\ fonts.request.found =>
       fonts.history[fonts.request.face].filled_by[fonts.request.key] = RequestedPair

\* C22: the key is the pair (size, max(delta, 0)): the 64-bit packing maps no two
\* different pairs to one key, for all int sizes and deltas, and a cached handle only
\* serves requests with the size and the clamped delta it was initialised for.
C22_KeyIsSizeAndDelta == KeyOfRequestIsItsOwn /\ ServedForOwnPair

\* ---- FontFamily face selection
FaceRequested == fonts.request.op = "GetFaceHandle"
\* The first face in insertion order, among those of `among`, whose weight is
\* nearest to the weight requested.
FirstNearest(among) ==
    LET dist(i) == Abs(fonts.font_faces[i].weight - fonts.request.weight)
        nearest == {i \in among : \A j \in among : dist(i) <= dist(j)}
    IN CHOOSE i \in nearest : \A j \in nearest : i <= j

\* C23: GetFaceHandle chooses the first face of the requested style with minimal
\* weight distance, or without a face of that style the first face of all with
\* minimal weight distance; it chooses none only if the family has no faces; and it
\* requests the handle with delta max(requested weight - chosen weight, 0), which is
\* 0 if the chosen face is at least as heavy as requested.
C23_FaceSelection ==
    FaceRequested =>
       LET all == 1..Len(fonts.font_faces)
           styled == {i \in all : fonts.font_faces[i].style = fonts.request.style}
           chosen == fonts.request.face
       IN /\ styled # {} => chosen = FirstNearest(styled)
          /\ styled = {} /\ all # {} => chosen = FirstNearest(all)
          /\ chosen = Null <=> all = {}
          /\ chosen # Null =>
                LET face_weight == fonts.font_faces[chosen].weight
                IN /\ fonts.request.synthetic_weight_delta
                         = Max(fonts.request.weight - face_weight, 0)
                   /\ face_weight >= fonts.request.weight
                         => fonts.request.synthetic_weight_delta = 0
                   /\ fonts.request.initialized # <<>> =>
                         fonts.request.initialized[1]
                            = Handle(fonts.request.size,
                                     Max(fonts.request.weight - face_weight, 0))

\* Weight 550 is requested of a family of a normal 400 and a normal 700 face, both
\* 150 away: the first is chosen and its handle initialised with delta 150.
C23_Witness ==
    /\ FaceRequested
    /\ Len(fonts.font_faces) = 2
    /\ fonts.font_faces[1].style = "Normal" /\ fonts.font_faces[1].weight = 400
    /\ fonts.font_faces[2].style = "Normal" /\ fonts.font_faces[2].weight = 700
    /\ fonts.request.style = "Normal" /\ fonts.request.weight = 550
    /\ fonts.request.face = 1
    /\ fonts.request.result = Handle(12, 150)
=============================================================================
